---- MODULE Spec2Model ----
(***************************************************************************)
(* Intercessio: the signing daemon's session manager (src/server.ts), its  *)
(* signing pipeline (api/provider.ts), the in-memory pending approvals     *)
(* (api/pending-approvals.ts) and the durable approval manager             *)
(* (api/approvals.ts over the approval_tasks table of api/db.ts).          *)
(*                                                                         *)
(* The daemon runs on one JavaScript event loop.  An action of this model  *)
(* is one run of a handler from the place it is entered or resumed up to   *)
(* its next real suspension (file, relay or socket I/O).  An await of a    *)
(* bun:sqlite call is no suspension: the call is synchronous, so the code  *)
(* after it runs in the same microtask drain.                              *)
(***************************************************************************)
EXTENDS Integers, Sequences, FiniteSets, TLC

----------------------------------------------------------------------------
(* Bounds of the model *)

\* the clock runs from 0 to MaxTime
MaxTime == 2
\* rows ever inserted into approval_tasks
MaxTasks == 2
\* pending approvals ever created by the signing pipeline
MaxApprovals == 2
\* restarts of the daemon process
MaxBoots == 1
\* times one daemon process is launched against the socket path
MaxLaunches == 2
\* data events handled per control-socket connection
MaxData == 3
\* characters of a relay string given alone, and of each string of a pair
MaxRelayLen == 6
MaxPairLen == 2
MaxStartRelayLen == 3
\* event kinds 0..MaxKind, besides the login kind
MaxKind == 30
\* calls of recordActivity, and the ticks of the clock between them
MaxRecords == 203
MaxLogTime == 1

----------------------------------------------------------------------------
(* Domains *)

TaskIds == 1..MaxTasks
ApprovalIds == 1..MaxApprovals
SessionIds == {"s1", "s2"}
KeyIds == {"k1"}
Clients == {"c1"}
NoClient == "none"
\* what a request field that is not there reads as
Undefined == "undefined"
\* the same for a field that holds an id
NoId == 0

ApprovalStatus == {"pending", "approved", "rejected", "expired"}
\* Exclude<ApprovalStatus, "pending">, as the control plane uses it
Decisions == {"approved", "rejected"}

VARIABLES
  \* ---- api/approvals.ts and the approval_tasks table
  now,             \* Date.now()
  approval_tasks,  \* the table: id -> [status, expiresAt, sessionId]
  waiters,         \* Map id -> PendingResolver (resolve + armed timeout)
  orphanTimers,    \* Map id -> timeout armed by scheduleExpiry
  taskDecision,    \* what the decision promise of task id was resolved with
  taskResolves,    \* how many times resolve() of that promise was called
  taskCause,       \* which operation called it
  \* ---- src/server.ts
  sessions,        \* the sessions table: id -> row
  keys,            \* key ids the key store resolves
  runtimes,        \* Map sessionId -> RuntimeSession
  records,         \* the SessionRecord object a registration works on
  policyRef,       \* policyRef.current of the provider built for a session
  reg,             \* where registerSessionRuntime stands for a session
  regFrom,         \* who called it: start handler or restore on boot
  provider,        \* the provider of a session
  waiting,         \* waitForClient() is pending with its .then armed
  stopOp,          \* a stopSession suspended in provider.stop()
  issued,          \* session ids randomUUID() has returned
  phase,           \* "restoring" during restoreSessionsOnBoot, else "serving"
  toRestore,       \* records of listSessions(true) not yet handled on boot
  boots,           \* restarts so far
  \* ---- api/pending-approvals.ts and the signing pipeline
  approvals,       \* Map id -> PendingApprovalRecord
  decisions,       \* per approval id: state of the promise the pipeline awaits
  approvalCause,   \* which operation resolved it (and whether it was created while a
                   \* stop of its session was suspended)
  lastResponse,    \* the answer to the last control-plane request that gives one
  lastSign,        \* the last onSignEvent call that ran through without suspending:
                   \* its session, policy decision, outcome and recorded activity
  referLog,        \* per approval id: the activity recorded by the call that created it
  referReply,      \* per approval id: what that call returned to the provider
  \* ---- startServer of several daemon processes on one socket path
  pc,              \* where each process stands in startServer
  launches,        \* how often each process was launched
  socketFile,      \* the process whose bind created the file at the path, or NoProc
  listening,       \* processes with a listening server
  \* ---- provider events and the activity log
  lastEvent,       \* the newest provider-connect / provider-disconnect activity entry
  \* ---- the control socket (startServer, socket data handler)
  conns,           \* per connection: buffer, suspended handlers, data events, responses
  \* ---- shutdownServer
  sd,              \* how far the shutdown has come, and the steps it has taken
  \* ---- pure functions
  call,            \* a call of normalizeRelays or evaluate: its input and, once done, results
  \* ---- values written
  flow,            \* the values held by the signer and written to rows, entries and responses
  \* ---- the activity log
  activityLog,     \* the entries kept, newest first
  recorded,        \* the number of recordActivity calls made
  \* ---- the secret store
  vault,           \* the stores of the key managers, keys.json, and the last answer
  \* ---- the approval notification
  notified,        \* per task: how its publish ended
  \* ---- connect and encryption requests
  lastPermission   \* the last onConnect / onNip04* / onNip44* call: session, method,
                   \* what it returned and the activity it recorded

amVars == <<now, approval_tasks, waiters, orphanTimers, taskDecision, taskResolves, taskCause>>
smVars == <<sessions, keys, runtimes, records, policyRef, reg, regFrom, provider, waiting,
            stopOp, issued, phase, toRestore, boots>>
paVars == <<approvals, decisions, approvalCause, lastResponse, lastSign, referLog, referReply>>
siVars == <<pc, launches, socketFile, listening>>
ioVars == <<lastEvent, conns, sd, call, flow, activityLog, recorded, vault, notified, lastPermission>>
vars == <<now, approval_tasks, waiters, orphanTimers, taskDecision, taskResolves, taskCause,
          sessions, keys, runtimes, records, policyRef, reg, regFrom, provider, waiting,
          stopOp, issued, phase, toRestore, boots, approvals, decisions,
          approvalCause, lastResponse, lastSign, referLog, referReply,
          pc, launches, socketFile, listening, lastEvent, conns, sd, call, flow, activityLog, recorded, vault, notified, lastPermission>>

----------------------------------------------------------------------------
(* The approval_tasks table (api/db.ts) *)

\* UPDATE approval_tasks SET status = ? WHERE id = ?
UpdateApprovalTaskStatus(tbl, id, status) ==
  IF id \in DOMAIN tbl THEN [tbl EXCEPT ![id].status = status] ELSE tbl

\* INSERT INTO approval_tasks ...
InsertApprovalTask(tbl, id, row) == tbl @@ (id :> row)

\* SELECT * FROM approval_tasks WHERE status IN (statuses)
ListApprovalTasks(tbl, statuses) == {id \in DOMAIN tbl : tbl[id].status \in statuses}

----------------------------------------------------------------------------
(* The approval manager (api/approvals.ts) *)

\* randomUUID(): an id no row has
FreshTaskId == CHOOSE id \in TaskIds : id \notin DOMAIN approval_tasks /\
                 \A other \in TaskIds \ DOMAIN approval_tasks : id <= other

\* a JavaScript boolean
Bool(b) == IF b THEN "true" ELSE "false"

\* what waiter.resolve receives in resolveApproval
ResolveValue(status) == Bool(status = "approved")

\* the promise's resolve function: the first call settles it
Settle(dec, id, value) == IF dec[id] = "unresolved" THEN [dec EXCEPT ![id] = value] ELSE dec

\* createApprovalTask: insert the pending row, arm the timeout, register the waiter
CreateApprovalTask(sessionId, expiresAt) ==
  /\ TaskIds \ DOMAIN approval_tasks # {}
  /\ LET id == FreshTaskId IN
       /\ approval_tasks' = InsertApprovalTask(approval_tasks, id,
              [status |-> "pending", expiresAt |-> expiresAt, sessionId |-> sessionId])
       /\ waiters' = waiters \cup {id}
       /\ taskDecision' = [taskDecision EXCEPT ![id] = "unresolved"]
  /\ UNCHANGED <<now, orphanTimers, taskResolves, taskCause>>

\* the timeout callback of createApprovalTask; setTimeout(.., max(expiresAt - now, 0))
WaiterTimeout(id) ==
  /\ id \in waiters
  /\ now >= approval_tasks[id].expiresAt
  /\ waiters' = waiters \ {id}
  /\ approval_tasks' = UpdateApprovalTaskStatus(approval_tasks, id, "expired")
  /\ taskDecision' = Settle(taskDecision, id, Bool(FALSE))
  /\ taskResolves' = [taskResolves EXCEPT ![id] = @ + 1]
  /\ taskCause' = [taskCause EXCEPT ![id] = "timer"]
  /\ UNCHANGED <<now, orphanTimers>>

\* resolveApproval(id, status)
ResolveApproval(id, status) ==
  /\ IF id \in waiters
       THEN /\ waiters' = waiters \ {id}
            /\ taskDecision' = Settle(taskDecision, id, ResolveValue(status))
            /\ taskResolves' = [taskResolves EXCEPT ![id] = @ + 1]
            /\ taskCause' = [taskCause EXCEPT ![id] = status]
       ELSE UNCHANGED <<waiters, taskDecision, taskResolves, taskCause>>
  /\ approval_tasks' = UpdateApprovalTaskStatus(approval_tasks, id, status)
  /\ UNCHANGED <<now, orphanTimers>>

\* expirePendingTask(id)
ExpirePendingTask(id) ==
  /\ approval_tasks' = UpdateApprovalTaskStatus(approval_tasks, id, "expired")
  /\ UNCHANGED <<now, waiters, orphanTimers, taskDecision, taskResolves, taskCause>>

\* scheduleExpiry(task) for every pending row: expire what is overdue, arm the rest
RestorePendingApprovalTimers ==
  LET pending == ListApprovalTasks(approval_tasks, {"pending"})
      overdue == {id \in pending : approval_tasks[id].expiresAt <= now}
  IN /\ approval_tasks' = [id \in DOMAIN approval_tasks |->
            IF id \in overdue THEN [approval_tasks[id] EXCEPT !.status = "expired"]
                              ELSE approval_tasks[id]]
     /\ orphanTimers' = orphanTimers \cup (pending \ overdue)
     /\ UNCHANGED <<now, waiters, taskDecision, taskResolves, taskCause>>

\* the timeout armed by scheduleExpiry; setTimeout(.., expiresAt - now)
OrphanTimeout(id) ==
  /\ id \in orphanTimers
  /\ now >= approval_tasks[id].expiresAt
  /\ orphanTimers' = orphanTimers \ {id}
  /\ approval_tasks' = UpdateApprovalTaskStatus(approval_tasks, id, "expired")
  /\ UNCHANGED <<now, waiters, taskDecision, taskResolves, taskCause>>

\* getApprovalDetails(id): an overdue pending row is expired on read
GetApprovalDetails(id) ==
  /\ approval_tasks' =
       IF id \in DOMAIN approval_tasks /\ approval_tasks[id].status = "pending"
          /\ approval_tasks[id].expiresAt <= now
       THEN UpdateApprovalTaskStatus(approval_tasks, id, "expired")
       ELSE approval_tasks
  /\ UNCHANGED <<now, waiters, orphanTimers, taskDecision, taskResolves, taskCause>>

\* time passes
Tick ==
  /\ now < MaxTime
  /\ now' = now + 1
  /\ UNCHANGED <<approval_tasks, waiters, orphanTimers, taskDecision, taskResolves, taskCause>>

----------------------------------------------------------------------------
(* The sessions table (api/db.ts) *)

\* INSERT ... ON CONFLICT(id) DO UPDATE: type and key_id of a row stay
UpsertSession(tbl, id, record) ==
  IF id \in DOMAIN tbl
    THEN [tbl EXCEPT ![id] = [record EXCEPT !.type = tbl[id].type, !.keyId = tbl[id].keyId]]
    ELSE tbl @@ (id :> record)

\* SELECT * FROM sessions WHERE active = 1
ListActiveSessions(tbl) == {id \in DOMAIN tbl : tbl[id].active}

\* UPDATE sessions SET status, last_client, updated_at, active = 1 WHERE id
UpdateSessionStatus(tbl, id, status, lastClient) ==
  IF id \in DOMAIN tbl
    THEN [tbl EXCEPT ![id].status = status, ![id].lastClient = lastClient, ![id].active = TRUE]
    ELSE tbl

\* UPDATE sessions SET active = 0 WHERE id
DeactivateSession(tbl, id) ==
  IF id \in DOMAIN tbl THEN [tbl EXCEPT ![id].active = FALSE] ELSE tbl

\* UPDATE sessions SET alias = ?, updated_at = ? WHERE id = ?
UpdateSessionAlias(tbl, id, alias) ==
  IF id \in DOMAIN tbl THEN [tbl EXCEPT ![id].alias = alias] ELSE tbl

\* DELETE FROM sessions WHERE id
DeleteSession(tbl, id) == [x \in DOMAIN tbl \ {id} |-> tbl[x]]

----------------------------------------------------------------------------
(* The policy registry (signingTemplates) *)

TemplateIds == {"auto_sign", "online_login", "login_and_publish", "login_requires_approval"}
DEFAULT_TEMPLATE_ID == "auto_sign"
\* the event kinds the policies tell apart, and one they do not
Kinds == {22242, 4}
\* the kind the daemon's sessions refer: what it does with the other kinds is the
\* pipeline's matter
DaemonKinds == {4}
\* the kinds with the one login_and_publish rejects
PipelineKinds == Kinds \cup {0}
\* the template ids a start request names
TemplateInputs == {"login_requires_approval"}
\* the template a pipeline session starts with, and what update-session-template names
PipelineTemplates == {"login_and_publish"}
UpdateInputs == {"online_login", "no_such_template"}
\* whether a start-bunker request carries a secret
SecretInputs == {TRUE}
\* the autoApprove flag of a start request
AutoApproveInputs == {TRUE}

\* getSigningTemplate(id ?? DEFAULT_TEMPLATE_ID): an unknown id gives the default
GetTemplateById(id) == IF id \in TemplateIds THEN id ELSE DEFAULT_TEMPLATE_ID

\* a decision that ignores the policy
EvaluateAlwaysSign(template, kind) == "SIGN"

\* template.evaluate({event})
Evaluate(template, kind) ==
  CASE template = "auto_sign" -> "SIGN"
    [] template = "online_login" -> IF kind = 22242 THEN "SIGN" ELSE "REJECT"
    [] template = "login_and_publish" ->
         IF kind = 22242 \/ kind = 1 THEN "SIGN" ELSE IF kind = 0 THEN "REJECT" ELSE "REFER"
    [] template = "login_requires_approval" -> IF kind = 22242 THEN "SIGN" ELSE "REFER"

----------------------------------------------------------------------------
(* Pending approvals (api/pending-approvals.ts) *)

\* randomUUID(): an id no approval ever had
FreshApprovalId == CHOOSE id \in ApprovalIds : decisions[id] = "none" /\
                     \A other \in ApprovalIds : decisions[other] = "none" => id <= other

\* a field of a parsed JSON request
Field(req, name) == IF name \in DOMAIN req THEN req[name] ELSE Undefined
IdField(req, name) == IF name \in DOMAIN req THEN req[name] ELSE NoId

\* a rejectApprovalsForSession that does not compare the session id
ApprovalsOfAnySession(sessionId) == DOMAIN approvals

\* the ids rejectApprovalsForSession(sessionId) visits
ApprovalsOfSession(sessionId) == {id \in DOMAIN approvals : approvals[id].sessionId = sessionId}

\* what rejectApprovalsForSession hands to record.resolveDecision
RejectValue == Bool(FALSE)

\* rejectApprovalsForSession(sessionId), as next-state values
ApprovalsAfterReject(sessionId) ==
  [id \in DOMAIN approvals \ ApprovalsOfSession(sessionId) |-> approvals[id]]
DecisionsAfterReject(sessionId) ==
  [id \in ApprovalIds |-> IF id \in ApprovalsOfSession(sessionId) THEN RejectValue ELSE decisions[id]]
CauseAfterReject(sessionId) ==
  [id \in ApprovalIds |->
     IF id \in ApprovalsOfSession(sessionId)
       THEN (IF approvalCause[id] = "during-stop" THEN "stop-late" ELSE "stop")
       ELSE approvalCause[id]]

\* a resolvePendingApproval that approves whatever it is given
ResolveDecisionAlwaysTrue(approved) == Bool(TRUE)

\* the pipelines resumed by rejectApprovalsForSession
LogAfterReject(sessionId) ==
  [id \in ApprovalIds |->
     IF id \in ApprovalsOfSession(sessionId)
       THEN Append(referLog[id], [type |-> "sign-result", approved |-> RejectValue])
       ELSE referLog[id]]
ReplyAfterReject(sessionId) ==
  [id \in ApprovalIds |->
     IF id \in ApprovalsOfSession(sessionId) THEN RejectValue ELSE referReply[id]]

\* what resolvePendingApproval hands to record.resolveDecision
ResolveDecisionValue(approved) == approved

\* no onSignEvent call has run through yet
NoSign == [sessionId |-> "none", decision |-> "none", reply |-> "none", log |-> <<>>]

\* the activity entries handleProviderActivity records for a sign request
SignRequestActivity == [type |-> "sign-request", approved |-> "none"]
SignResultActivity(approved) == [type |-> "sign-result", approved |-> approved]

\* ensurePrompt(question, defaultValue, forcePrompt) of a provider built without a
\* prompter: true with autoApprove, else it throws
EnsurePrompt(autoApprove, forcePrompt) ==
  IF autoApprove /\ ~forcePrompt THEN Bool(TRUE) ELSE "threw"

\* an onSignEvent that answers approve whatever was decided
SignReplyAlwaysTrue(approved) == Bool(TRUE)

\* what onSignEvent returns once approved is known
SignReply(approved) == approved

\* onSignEvent resumed by `approved = await decision`: sign-decision is emitted, then
\* approved is returned
LogAfterDecision(log, id, approved) == [log EXCEPT ![id] = Append(@, SignResultActivity(approved))]

\* an onSignEvent that never returns after its decision arrived
ReplyNeverSent(rep, id, approved) == rep

ReplyAfterDecision(rep, id, approved) == [rep EXCEPT ![id] = SignReply(approved)]

\* resolvePendingApproval(id, approved), answered by the resolve-approval handler
ResolvePendingApproval(id, approved) ==
  IF id \in DOMAIN approvals
    THEN /\ approvals' = [x \in DOMAIN approvals \ {id} |-> approvals[x]]
         /\ decisions' = [decisions EXCEPT ![id] = ResolveDecisionValue(approved)]
         /\ approvalCause' = [approvalCause EXCEPT ![id] =
                                 IF approved = Bool(TRUE) THEN "approve" ELSE "reject"]
         /\ referLog' = LogAfterDecision(referLog, id, ResolveDecisionValue(approved))
         /\ referReply' = ReplyAfterDecision(referReply, id, ResolveDecisionValue(approved))
         /\ lastResponse' = "ok"
         /\ UNCHANGED lastSign
    ELSE /\ lastResponse' = "Approval not found"
         /\ UNCHANGED <<approvals, decisions, approvalCause, lastSign, referLog, referReply>>

\* resolve-approval requests as api/ipc.ts types them, and as the handler reads them
TypedResolveRequests ==
  [type : {"resolve-approval"}, id : ApprovalIds, decision : {"approve", "reject"}]
LegacyResolveRequests ==
  [type : {"resolve-approval"}, approvalId : ApprovalIds, approved : {Bool(TRUE), Bool(FALSE)}]
ResolveRequests == TypedResolveRequests \cup LegacyResolveRequests

\* handleRequest, case "resolve-approval"
HandleResolveApproval(req) ==
  /\ phase = "serving"
  /\ ResolvePendingApproval(IdField(req, "approvalId"), Field(req, "approved"))
  /\ UNCHANGED <<amVars, smVars>>

\* onSignEvent of the provider built for a session: sign-request is emitted, the
\* policy is evaluated; SIGN goes through ensurePrompt, REJECT denies, REFER creates the
\* pending approval and awaits its decision
SignRequest(sessionId, kind) ==
  /\ provider[sessionId] = "running"
  /\ LET decision == Evaluate(policyRef[sessionId], kind)
         approved == IF decision = "SIGN"
                       THEN EnsurePrompt(records[sessionId].autoApprove, FALSE)
                       ELSE Bool(FALSE)
     IN IF decision = "REFER"
          THEN /\ \E id \in ApprovalIds : decisions[id] = "none"
               /\ LET id == FreshApprovalId IN
                    /\ approvals' = approvals @@
                         (id :> [sessionId |-> sessionId, policy |-> policyRef[sessionId]])
                    /\ decisions' = [decisions EXCEPT ![id] = "pending"]
                    /\ approvalCause' = [approvalCause EXCEPT ![id] =
                         IF stopOp[sessionId] # "none" THEN "during-stop" ELSE "none"]
                    /\ referLog' = [referLog EXCEPT ![id] = <<SignRequestActivity>>]
               /\ UNCHANGED <<lastResponse, lastSign, referReply>>
          ELSE /\ lastSign' =
                    [sessionId |-> sessionId, decision |-> decision,
                     reply |-> IF approved = "threw" THEN "threw" ELSE SignReply(approved),
                     log |-> IF approved = "threw"
                               THEN <<SignRequestActivity>>
                               ELSE <<SignRequestActivity, SignResultActivity(approved)>>]
               /\ UNCHANGED <<approvals, decisions, approvalCause, lastResponse,
                              referLog, referReply>>
  /\ UNCHANGED <<amVars, smVars>>

----------------------------------------------------------------------------
(* The session manager (src/server.ts) *)

\* randomUUID(): an id never returned before
FreshSessionId == CHOOSE id \in SessionIds \ issued : TRUE

\* (req.alias ?? `Bunker ${sessionId}`).trim(), and what rename-session names
DefaultAlias == "default"
AliasInputs == {"renamed"}

\* the record createSessionRecord builds
NewRecord(type, keyId, secret, uri, autoApprove, template) ==
  [type |-> type, keyId |-> keyId, active |-> TRUE, autoApprove |-> autoApprove,
   status |-> IF type = "bunker" THEN "waiting" ELSE "connected",
   lastClient |-> NoClient, uri |-> uri, secret |-> secret,
   template |-> GetTemplateById(template), alias |-> DefaultAlias]

\* how a start or a registration ended when it threw
FailedStates == {"failed:key", "failed:uri", "failed:start", "failed:store"}

\* registerSessionRuntime is suspended for this session
Registering(s) == reg[s] \in {"awaitKey", "awaitStart", "awaitResume"}

\* a boot loop without the try/catch: it ends with the first record it has handled
RestoreGivesUp(s) == IF phase = "restoring" THEN {} ELSE toRestore

\* the boot loop goes on to its next record once this one is registered or skipped
RestoreHandled(s) == IF phase = "restoring" THEN toRestore \ {s} ELSE toRestore

\* markBunkerClientConnected(record, client): the object, then the row
MarkConnectedRecord(record, client) ==
  [record EXCEPT !.status = "connected", !.lastClient = client, !.active = TRUE]

\* a markBunkerClientConnected that does not write the row
MarkConnectedRowSkipped(tbl, id, client) == tbl

MarkConnectedRow(tbl, id, client) == UpdateSessionStatus(tbl, id, "connected", client)

\* startBunkerSession / startNostrConnectSession up to the await of getKeyRecordById:
\* createSessionRecord persists the record, then registerSessionRuntime is entered
StartSession(type, keyId, secret, uri, autoApprove, template, dbOk) ==
  /\ phase = "serving"
  /\ SessionIds \ issued # {}
  /\ LET id == FreshSessionId
         record == NewRecord(type, keyId, secret, uri, autoApprove, template)
     IN /\ issued' = issued \cup {id}
        /\ regFrom' = [regFrom EXCEPT ![id] = "start"]
        /\ IF dbOk
             THEN /\ sessions' = UpsertSession(sessions, id, record)
                  /\ records' = records @@ (id :> record)
                  /\ reg' = [reg EXCEPT ![id] = "awaitKey"]
             ELSE /\ reg' = [reg EXCEPT ![id] = "failed:store"]
                  /\ UNCHANGED <<sessions, records>>
  /\ UNCHANGED <<keys, runtimes, policyRef, provider, waiting, stopOp, phase,
                 toRestore, boots, amVars, paVars>>

\* handleRequest, case "start-bunker": the bunker URI is derived, not given
StartBunkerSession(keyId, secret, autoApprove, template, dbOk) ==
  StartSession("bunker", keyId, secret, FALSE, autoApprove, template, dbOk)

\* handleRequest, case "start-nostr-connect": no secret, the URI comes with the request
StartNostrConnectSession(keyId, uri, autoApprove, template, dbOk) ==
  StartSession("nostr-connect", keyId, FALSE, uri, autoApprove, template, dbOk)

\* registerSessionRuntime resumed after getKeyRecordById: throw without a key, else
\* build the provider and call provider.start
RegisterKeyLoaded(s) ==
  /\ reg[s] = "awaitKey"
  /\ IF records[s].keyId \notin keys
       THEN /\ reg' = [reg EXCEPT ![s] = "failed:key"]
            /\ toRestore' = RestoreHandled(s)
            /\ UNCHANGED <<policyRef, provider>>
       ELSE /\ policyRef' = [policyRef EXCEPT ![s] = GetTemplateById(records[s].template)]
            /\ IF records[s].type = "nostr-connect" /\ ~records[s].uri
                 THEN /\ reg' = [reg EXCEPT ![s] = "failed:uri"]
                      /\ toRestore' = RestoreHandled(s)
                      /\ UNCHANGED provider
                 ELSE /\ reg' = [reg EXCEPT ![s] = "awaitStart"]
                      /\ provider' = [provider EXCEPT ![s] = "starting"]
                      /\ UNCHANGED toRestore
  /\ UNCHANGED <<sessions, keys, runtimes, records, regFrom, waiting, stopOp, issued, phase, boots, amVars, paVars>>

\* registerSessionRuntime resumed after provider.start(): it threw (started = FALSE), or
\* the record is completed and written (dbOk: the upsert did not throw) and the runtime
\* is set; a bunker with a last client and a secret first awaits resumeClient
RegisterProviderStarted(s, started, dbOk) ==
  /\ reg[s] = "awaitStart"
  /\ LET record == records[s]
         bunker == record.type = "bunker"
         writes == IF bunker THEN ~record.uri ELSE TRUE
         written == IF bunker THEN [record EXCEPT !.uri = TRUE]
                              ELSE [record EXCEPT !.status = "connected"]
         resumes == bunker /\ record.lastClient # NoClient /\ record.secret
     IN IF ~started
          THEN /\ provider' = [provider EXCEPT ![s] = "none"]
               /\ reg' = [reg EXCEPT ![s] = "failed:start"]
               /\ toRestore' = RestoreHandled(s)
               /\ UNCHANGED <<sessions, records, runtimes, waiting>>
          ELSE /\ provider' = [provider EXCEPT ![s] = "running"]
               /\ IF writes /\ ~dbOk
                    THEN /\ records' = [records EXCEPT ![s] = written]
                         /\ reg' = [reg EXCEPT ![s] = "failed:store"]
                         /\ toRestore' = RestoreHandled(s)
                         /\ UNCHANGED <<sessions, runtimes, waiting>>
                    ELSE /\ records' = [records EXCEPT ![s] = IF writes THEN written ELSE record]
                         /\ sessions' = IF writes THEN UpsertSession(sessions, s, written)
                                                  ELSE sessions
                         /\ IF resumes
                              THEN /\ reg' = [reg EXCEPT ![s] = "awaitResume"]
                                   /\ UNCHANGED <<runtimes, waiting, toRestore>>
                              ELSE /\ reg' = [reg EXCEPT ![s] = "ok"]
                                   /\ runtimes' = runtimes \cup {s}
                                   /\ waiting' = IF bunker THEN waiting \cup {s} ELSE waiting
                                   /\ toRestore' = RestoreHandled(s)
  /\ UNCHANGED <<keys, policyRef, regFrom, stopOp, issued, phase, boots,
                 amVars, paVars>>

\* resumeBunkerSession resumed after provider.resumeClient: mark the client connected,
\* or (it threw) fall back to waitForBunkerClient; then runtimes.set
RegisterResumed(s, resumed) ==
  /\ reg[s] = "awaitResume"
  /\ IF resumed
       THEN /\ records' = [records EXCEPT ![s] = MarkConnectedRecord(@, @.lastClient)]
            /\ sessions' = MarkConnectedRow(sessions, s, records[s].lastClient)
            /\ UNCHANGED waiting
       ELSE /\ waiting' = waiting \cup {s}
            /\ UNCHANGED <<records, sessions>>
  /\ reg' = [reg EXCEPT ![s] = "ok"]
  /\ runtimes' = runtimes \cup {s}
  /\ toRestore' = RestoreHandled(s)
  /\ UNCHANGED <<keys, policyRef, regFrom, provider, stopOp, issued, phase, boots,
                 amVars, paVars>>

\* waitForBunkerClient: provider.waitForClient() resolved, then markBunkerClientConnected
ClientConnected(s, client) ==
  /\ s \in waiting
  /\ provider[s] = "running"
  /\ waiting' = waiting \ {s}
  /\ records' = [records EXCEPT ![s] = MarkConnectedRecord(@, client)]
  /\ sessions' = MarkConnectedRow(sessions, s, client)
  /\ UNCHANGED <<keys, runtimes, policyRef, reg, regFrom, provider, stopOp, issued,
                 phase, toRestore, boots, amVars, paVars>>

\* stopSession from rejectApprovalsForSession on: reject, deactivate, delete on remove
StopTail(s, remove) ==
  /\ approvals' = ApprovalsAfterReject(s)
  /\ decisions' = DecisionsAfterReject(s)
  /\ approvalCause' = CauseAfterReject(s)
  /\ referLog' = LogAfterReject(s)
  /\ referReply' = ReplyAfterReject(s)
  /\ sessions' = IF remove THEN DeleteSession(DeactivateSession(sessions, s), s)
                           ELSE DeactivateSession(sessions, s)
  /\ lastResponse' = "ok"
  /\ UNCHANGED lastSign

\* handleRequest, cases "stop-session" and "delete-session": with a runtime, stopSession
\* suspends in provider.stop(); without one it runs through
StopSession(s, remove) ==
  /\ phase = "serving"
  /\ stopOp[s] = "none"
  /\ IF s \in runtimes
       THEN /\ stopOp' = [stopOp EXCEPT ![s] = IF remove THEN "delete" ELSE "stop"]
            /\ UNCHANGED <<sessions, paVars>>
       ELSE /\ StopTail(s, remove)
            /\ UNCHANGED stopOp
  /\ UNCHANGED <<keys, runtimes, records, policyRef, reg, regFrom, provider, waiting, issued,
                 phase, toRestore, boots, amVars>>

\* stopSession resumed after provider.stop(): runtimes.delete, then the tail
StopProviderStopped(s) ==
  /\ stopOp[s] # "none"
  /\ runtimes' = runtimes \ {s}
  /\ provider' = [provider EXCEPT ![s] = "stopped"]
  /\ waiting' = waiting \ {s}
  /\ StopTail(s, stopOp[s] = "delete")
  /\ stopOp' = [stopOp EXCEPT ![s] = "none"]
  /\ UNCHANGED <<keys, records, policyRef, reg, regFrom, issued, phase, toRestore, boots,
                 amVars>>

\* an update that writes a record as createSessionRecord made it, with the new template
RowWrittenAsCreated(tbl, s, template) ==
  UpsertSession(tbl, s, [tbl[s] EXCEPT !.template = template, !.status = "waiting",
                                       !.lastClient = NoClient])

\* record = await getSessionById(s); record.template = template.id; upsertSession(record)
RowAfterTemplateUpdate(tbl, s, template) ==
  UpsertSession(tbl, s, [tbl[s] EXCEPT !.template = template])

\* handleRequest, case "update-session-template": updateSessionTemplateRequest reads
\* the row, resolves the template, writes the row back and swaps the policy of a runtime
UpdateSessionTemplate(s, templateId) ==
  /\ phase = "serving"
  /\ IF s \notin DOMAIN sessions
       THEN /\ lastResponse' = "Session not found"
            /\ UNCHANGED <<sessions, records, policyRef>>
       ELSE LET template == GetTemplateById(templateId) IN
            /\ sessions' = RowAfterTemplateUpdate(sessions, s, template)
            /\ IF s \in runtimes
                 THEN /\ policyRef' = [policyRef EXCEPT ![s] = template]
                      /\ records' = [records EXCEPT ![s].template = template]
                 ELSE UNCHANGED <<policyRef, records>>
            /\ lastResponse' = "ok"
  /\ UNCHANGED <<keys, runtimes, reg, regFrom, provider, waiting, stopOp, issued, phase,
                 toRestore, boots, approvals, decisions, approvalCause, lastSign, referLog,
                 referReply, amVars>>

\* handleRequest, case "rename-session": renameSession reads the row, updates its alias
\* and the alias of a runtime's record
RenameSession(s, alias) ==
  /\ phase = "serving"
  /\ IF s \notin DOMAIN sessions
       THEN /\ lastResponse' = "Session not found"
            /\ UNCHANGED <<sessions, records>>
       ELSE /\ sessions' = UpdateSessionAlias(sessions, s, alias)
            /\ records' = IF s \in runtimes THEN [records EXCEPT ![s].alias = alias]
                                              ELSE records
            /\ lastResponse' = "ok"
  /\ UNCHANGED <<keys, runtimes, policyRef, reg, regFrom, provider, waiting, stopOp, issued,
                 phase, toRestore, boots, approvals, decisions, approvalCause, lastSign,
                 referLog, referReply, amVars>>

\* deleteKey(id) of the key store
DeleteKey(keyId) ==
  /\ keyId \in keys
  /\ keys' = keys \ {keyId}
  /\ UNCHANGED <<sessions, runtimes, records, policyRef, reg, regFrom, provider, waiting,
                 stopOp, issued, phase, toRestore, boots, amVars, paVars>>

\* the process is killed and started again: everything in memory is gone, the tables
\* stay; startServer calls restoreSessionsOnBoot, which reads listSessions(true)
Restart ==
  /\ boots < MaxBoots
  /\ boots' = boots + 1
  /\ runtimes' = {}
  /\ records' = [s \in ListActiveSessions(sessions) |-> sessions[s]]
  /\ toRestore' = ListActiveSessions(sessions)
  /\ phase' = "restoring"
  /\ policyRef' = [s \in SessionIds |-> "none"]
  /\ reg' = [s \in SessionIds |-> "none"]
  /\ regFrom' = [s \in SessionIds |-> "none"]
  /\ provider' = [s \in SessionIds |-> "none"]
  /\ waiting' = {}
  /\ stopOp' = [s \in SessionIds |-> "none"]
  /\ waiters' = {}
  /\ orphanTimers' = {}
  /\ taskDecision' = [id \in TaskIds |-> "none"]
  /\ taskResolves' = [id \in TaskIds |-> 0]
  /\ taskCause' = [id \in TaskIds |-> "none"]
  /\ approvals' = <<>>
  /\ decisions' = [id \in ApprovalIds |-> "none"]
  /\ approvalCause' = [id \in ApprovalIds |-> "none"]
  /\ lastResponse' = "none"
  /\ lastSign' = NoSign
  /\ referLog' = [id \in ApprovalIds |-> <<>>]
  /\ referReply' = [id \in ApprovalIds |-> "none"]
  /\ UNCHANGED <<now, approval_tasks, sessions, keys, issued>>

\* restoreSessionsOnBoot: the next record of the loop enters registerSessionRuntime
RestoreNext(s) ==
  /\ phase = "restoring"
  /\ s \in toRestore
  /\ \A other \in SessionIds : ~Registering(other)
  /\ reg[s] = "none"
  /\ reg' = [reg EXCEPT ![s] = "awaitKey"]
  /\ regFrom' = [regFrom EXCEPT ![s] = "restore"]
  /\ UNCHANGED <<sessions, keys, runtimes, records, policyRef, provider, waiting, stopOp,
                 issued, phase, toRestore, boots, amVars, paVars>>

\* startServer after restoreSessionsOnBoot: the socket is bound, requests are served
FinishBoot ==
  /\ phase = "restoring"
  /\ toRestore = {}
  /\ phase' = "serving"
  /\ UNCHANGED <<sessions, keys, runtimes, records, policyRef, reg, regFrom, provider,
                 waiting, stopOp, issued, toRestore, boots, amVars, paVars>>

----------------------------------------------------------------------------
(* Starting the daemon: several processes, one socket path (src/server.ts) *)

Procs == {"p1", "p2"}
NoProc == "none"

\* net.createConnection(socketPath) connects: a listening server owns the file
Connects == socketFile # NoProc /\ socketFile \in listening

\* a daemon process is launched; startServer enters ensureNoRunningInstance
Launch(p) ==
  /\ pc[p] \in {"off", "exited", "crashed"}
  /\ launches[p] < MaxLaunches
  /\ launches' = [launches EXCEPT ![p] = @ + 1]
  /\ pc' = [pc EXCEPT ![p] = "connecting"]
  /\ UNCHANGED <<socketFile, listening>>

\* ensureNoRunningInstance: the connection attempt ends. "connect": exit(0);
\* ECONNREFUSED (a file without a listener): cleanupSocket comes next; any other error
\* (no file): resolve
EnsureNoRunningInstance(p) ==
  /\ pc[p] = "connecting"
  /\ pc' = [pc EXCEPT ![p] = IF Connects THEN "exited"
                              ELSE IF socketFile # NoProc THEN "refused" ELSE "cleanup"]
  /\ UNCHANGED <<launches, socketFile, listening>>

\* cleanupSocket(): existsSync, then unlinkSync of whatever file is at the path
CleanupSocket == NoProc

\* the cleanupSocket() of the ECONNREFUSED branch, then resolve()
CleanupRefused(p) ==
  /\ pc[p] = "refused"
  /\ socketFile' = CleanupSocket
  /\ pc' = [pc EXCEPT ![p] = "cleanup"]
  /\ UNCHANGED <<launches, listening>>

\* startServer: cleanupSocket() after ensureNoRunningInstance, then restoreSessionsOnBoot
CleanupBeforeRestore(p) ==
  /\ pc[p] = "cleanup"
  /\ socketFile' = CleanupSocket
  /\ pc' = [pc EXCEPT ![p] = "restoring"]
  /\ UNCHANGED <<launches, listening>>

\* startServer: server.listen(socketPath) after the restore; with a file at the path
\* the bind fails (EADDRINUSE) and the unhandled error event ends the process
Listen(p) ==
  /\ pc[p] = "restoring"
  /\ IF socketFile # NoProc
       THEN /\ pc' = [pc EXCEPT ![p] = "crashed"]
            /\ UNCHANGED <<socketFile, listening>>
       ELSE /\ pc' = [pc EXCEPT ![p] = "serving"]
            /\ socketFile' = p
            /\ listening' = listening \cup {p}
  /\ UNCHANGED launches

\* shutdownServer: the server is closed, cleanupSocket(), process.exit
ShutdownServer(p) ==
  /\ pc[p] = "serving"
  /\ listening' = listening \ {p}
  /\ socketFile' = CleanupSocket
  /\ pc' = [pc EXCEPT ![p] = "exited"]
  /\ UNCHANGED launches

\* the process is killed: its server is gone, the file stays
Kill(p) ==
  /\ pc[p] = "serving"
  /\ listening' = listening \ {p}
  /\ pc' = [pc EXCEPT ![p] = "crashed"]
  /\ UNCHANGED <<launches, socketFile>>

----------------------------------------------------------------------------
(* Provider events (server.ts, handleProviderActivity) *)

\* public keys of the peers that connect to a provider
Peers == {"c1", "c2"}

\* no provider-connect / provider-disconnect entry has been recorded
NoEvent == [type |-> "none", sessionId |-> "none", client |-> NoClient]

\* recordActivity of the cases "client-connected" and "client-disconnected"
ConnectActivity(s, client) == [type |-> "provider-connect", sessionId |-> s, client |-> client]
DisconnectActivity(s, client) ==
  [type |-> "provider-disconnect", sessionId |-> s, client |-> client]

\* a client-disconnected case that deactivates the session
RowDeactivatedOnDisconnect(tbl, s) == DeactivateSession(tbl, s)

\* the sessions table after the case "client-disconnected": no statement touches it
RowAfterDisconnect(tbl, s) == tbl

\* the first client of a waiting bunker: onClientConnect records the activity and the
\* pending waitForClient() resolves, so markBunkerClientConnected runs
FirstClientConnected(s, client) ==
  /\ ClientConnected(s, client)
  /\ lastEvent' = ConnectActivity(s, client)
  /\ UNCHANGED <<conns, sd, call, flow, activityLog, recorded, vault, notified, lastPermission>>

\* onClientConnect of a provider nobody waits on (a nostr-connect session, or a bunker
\* after its first client): handleProviderActivity records the activity
ClientConnectedEvent(s, client) ==
  /\ provider[s] = "running"
  /\ s \notin waiting
  /\ lastEvent' = ConnectActivity(s, client)
  /\ UNCHANGED <<amVars, smVars, paVars, conns, sd, call, flow, activityLog, recorded, vault, notified, lastPermission>>

\* onClientDisconnect: handleProviderActivity records the activity
ClientDisconnectedEvent(s, client) ==
  /\ provider[s] = "running"
  /\ lastEvent' = DisconnectActivity(s, client)
  /\ sessions' = RowAfterDisconnect(sessions, s)
  /\ UNCHANGED <<keys, runtimes, records, policyRef, reg, regFrom, provider, waiting, stopOp,
                 issued, phase, toRestore, boots, amVars, paVars, conns, sd, call, flow, activityLog, recorded, vault, notified, lastPermission>>

----------------------------------------------------------------------------
(* The control socket (server.ts, startServer: the data handler of a connection) *)

\* connections to the control socket
Conns == {"n1", "n2"}

\* the lines a client writes, each ending in a newline: ping, a request with a tag
\* handleRequest does not know, text that is not JSON, and a start request, whose
\* handler suspends in registerSessionRuntime
Lines == {"ping", "bogus", "garbage", "start"}

\* a connection on which no data has arrived
NoData == [buffer |-> <<>>, suspended |-> 0, events |-> 0, written |-> <<>>]

\* JSON.parse(buffer.trim()): one JSON document, or a SyntaxError
Parse(buffer) ==
  IF Len(buffer) = 1 /\ buffer[1] # "garbage" THEN buffer[1] ELSE "SyntaxError"

\* a default case that answers ok
UnknownAnsweredOk(req) == "ok"

\* handleRequest, default case
UnknownRequest(req) == "Unknown request"

\* handleRequest(req) for the requests that are answered without a suspension
HandleRequest(req) == IF req = "ping" THEN "ok" ELSE UnknownRequest(req)

\* the answer the protocol gives to a line
Answer(line) ==
  CASE line = "garbage" -> "SyntaxError"
    [] line = "start" -> "ok"
    [] OTHER -> HandleRequest(line)

\* socket.on("data"): append the chunk; the buffer ends with a newline, so parse it and
\* answer a SyntaxError from the catch, or call handleRequest and either answer or
\* suspend; the finally clears the buffer once the handler has ended
Data(k, line) ==
  /\ conns[k].events < MaxData
  /\ LET c == conns[k]
         buffer == Append(c.buffer, line)
         req == Parse(buffer)
     IN conns' = [conns EXCEPT ![k] =
          IF req = "SyntaxError"
            THEN [c EXCEPT !.buffer = <<>>, !.events = @ + 1,
                           !.written = Append(@, [req |-> line, res |-> "SyntaxError"])]
          ELSE IF req = "start"
            THEN [c EXCEPT !.buffer = buffer, !.events = @ + 1, !.suspended = @ + 1]
          ELSE [c EXCEPT !.buffer = <<>>, !.events = @ + 1,
                         !.written = Append(@, [req |-> line, res |-> HandleRequest(req)])]]
  /\ UNCHANGED <<amVars, smVars, paVars, siVars, lastEvent, sd, call, flow, activityLog, recorded, vault, notified, lastPermission>>

\* a suspended data handler resumes with the result of handleRequest, writes the
\* response and clears the buffer in its finally
DataResumed(k) ==
  /\ conns[k].suspended > 0
  /\ conns' = [conns EXCEPT ![k] =
        [@ EXCEPT !.buffer = <<>>, !.suspended = @ - 1,
                  !.written = Append(@, [req |-> "start", res |-> "ok"])]]
  /\ UNCHANGED <<amVars, smVars, paVars, siVars, lastEvent, sd, call, flow, activityLog, recorded, vault, notified, lastPermission>>

----------------------------------------------------------------------------
(* Shutdown (server.ts, stopAllSessions and shutdownServer) *)

\* no shutdown has been asked for
NoShutdown == [phase |-> "up", log |-> <<>>]

\* the server takes new connections: it is listening and serverRef.close was not called
Accepting == phase = "serving" /\ sd.phase \in {"up", "scheduled", "stopping"}

\* handleRequest, case "shutdown": arm the 10 ms timer, answer ok
ShutdownRequested ==
  /\ phase = "serving"
  /\ sd.phase = "up"
  /\ sd' = [phase |-> "scheduled", log |-> <<"answered">>]
  /\ UNCHANGED <<amVars, smVars, paVars, siVars, lastEvent, conns, call, flow, activityLog, recorded, vault, notified, lastPermission>>

\* the runtime map after the loop of stopAllSessions: runtimes.delete(id) for every entry
RuntimesAfterStopAll(rts) == {}

\* shutdownServer entered from the timer of a shutdown request or from SIGINT / SIGTERM:
\* stopAllSessions calls provider.stop() of every runtime and deletes the entry, then
\* awaits the stops; with nothing to await it goes on to serverRef.close() at once
StopAllSessions(cause) ==
  /\ phase = "serving"
  /\ IF cause = "timer" THEN sd.phase = "scheduled" ELSE sd.phase \in {"up", "scheduled"}
  /\ provider' = [s \in SessionIds |-> IF s \in runtimes THEN "stopping" ELSE provider[s]]
  /\ runtimes' = RuntimesAfterStopAll(runtimes)
  /\ sd' = IF runtimes = {}
             THEN [phase |-> "closing", log |-> sd.log \o <<"stop-all", "close">>]
             ELSE [phase |-> "stopping", log |-> Append(sd.log, "stop-all")]
  /\ UNCHANGED <<sessions, keys, records, policyRef, reg, regFrom, waiting, stopOp, issued,
                 phase, toRestore, boots, amVars, paVars, siVars, lastEvent, conns, call, flow, activityLog, recorded, vault, notified, lastPermission>>

\* provider.stop() called by stopAllSessions settles
ProviderStopResolved(s) ==
  /\ sd.phase = "stopping"
  /\ provider[s] = "stopping"
  /\ provider' = [provider EXCEPT ![s] = "stopped"]
  /\ waiting' = waiting \ {s}
  /\ UNCHANGED <<sessions, keys, runtimes, records, policyRef, reg, regFrom, stopOp, issued,
                 phase, toRestore, boots, amVars, paVars, siVars, ioVars>>

\* shutdownServer resumed after stopAllSessions: serverRef.close()
ServerClose ==
  /\ sd.phase = "stopping"
  /\ \A s \in SessionIds : provider[s] # "stopping"
  /\ sd' = [phase |-> "closing", log |-> Append(sd.log, "close")]
  /\ UNCHANGED <<amVars, smVars, paVars, siVars, lastEvent, conns, call, flow, activityLog, recorded, vault, notified, lastPermission>>

\* shutdownServer resumed after the close callback: cleanupSocket, process.exit
ShutdownExit ==
  /\ sd.phase = "closing"
  /\ sd' = [phase |-> "exited", log |-> sd.log \o <<"unlink", "exit">>]
  /\ UNCHANGED <<amVars, smVars, paVars, siVars, lastEvent, conns, call, flow, activityLog, recorded, vault, notified, lastPermission>>

\* the next launch of the daemon after the exit
BootAfterExit ==
  /\ sd.phase = "exited"
  /\ Restart
  /\ sd' = NoShutdown
  /\ UNCHANGED <<siVars, lastEvent, conns, call, flow, activityLog, recorded, vault, notified, lastPermission>>

----------------------------------------------------------------------------
(* Pure functions: normalizeRelays (api/relays.ts) and the policies' evaluate *)

\* a string is the sequence of its characters
Chars == {"w", "s", ":", "/", " ", "W"}

\* all strings of at most n characters
RECURSIVE StringsUpTo(_)
StringsUpTo(n) ==
  IF n = 0 THEN {<<>>}
  ELSE LET shorter == StringsUpTo(n - 1)
       IN shorter \cup {Append(str, c) : str \in {x \in shorter : Len(x) = n - 1}, c \in Chars}

\* the relay lists given to normalizeRelays: the empty list, every one-entry list, and the
\* two-entry lists of short strings
RelayLists ==
  {<<>>} \cup {<<url>> : url \in StringsUpTo(MaxRelayLen)}
         \cup {<<a, b>> : a \in StringsUpTo(MaxPairLen), b \in StringsUpTo(MaxPairLen)}

\* the event kinds given to evaluate
EventKinds == 0..MaxKind \cup {22242}

\* constants.ts, DEFAULT_RELAYS: two relay URLs, wss://relay.nsec.app and wss://nos.lol,
\* their host names shortened to one character
DEFAULT_RELAYS ==
  << <<"w", "s", "s", ":", "/", "/", "w">>, <<"w", "s", "s", ":", "/", "/", "s">> >>

\* String.prototype.trim
RECURSIVE TrimStart(_)
TrimStart(str) == IF str # <<>> /\ Head(str) = " " THEN TrimStart(Tail(str)) ELSE str
RECURSIVE TrimEnd(_)
TrimEnd(str) ==
  IF str # <<>> /\ str[Len(str)] = " " THEN TrimEnd(SubSeq(str, 1, Len(str) - 1)) ELSE str
Trim(str) == TrimEnd(TrimStart(str))

\* the i flag of the test in cleanupRelay
Lower(c) == IF c = "W" THEN "w" ELSE c

\* /^wss?:\/\//i.test(value)
HasScheme(value) ==
  /\ Len(value) >= 5
  /\ Lower(value[1]) = "w" /\ Lower(value[2]) = "s"
  /\ \/ SubSeq(value, 3, 5) = <<":", "/", "/">>
     \/ Len(value) >= 6 /\ Lower(value[3]) = "s" /\ SubSeq(value, 4, 6) = <<":", "/", "/">>

\* value.replace(/\/+$/, "")
RECURSIVE StripSlashes(_)
StripSlashes(value) ==
  IF value # <<>> /\ value[Len(value)] = "/"
    THEN StripSlashes(SubSeq(value, 1, Len(value) - 1))
    ELSE value

\* cleanupRelay(url)
CleanupRelay(url) ==
  LET value == Trim(url)
  IN IF value = <<>> THEN <<>>
     ELSE StripSlashes(IF HasScheme(value) THEN value
                       ELSE <<"w", "s", "s", ":", "/", "/">> \o value)

\* Array.from(new Set(list)): first occurrences, in order
RECURSIVE Unique(_)
Unique(list) ==
  IF list = <<>> THEN <<>>
  ELSE LET front == Unique(SubSeq(list, 1, Len(list) - 1))
           last == list[Len(list)]
       IN IF \E i \in 1..Len(front) : front[i] = last THEN front ELSE Append(front, last)

\* .filter(Boolean) on strings: the non-empty ones
RECURSIVE NonEmpty(_)
NonEmpty(list) ==
  IF list = <<>> THEN <<>>
  ELSE IF Head(list) = <<>> THEN NonEmpty(Tail(list))
       ELSE <<Head(list)>> \o NonEmpty(Tail(list))

\* normalizeRelays(relays)
NormalizeRelays(relays) ==
  LET list == IF Len(relays) > 0 THEN relays ELSE DEFAULT_RELAYS
      cleaned == NonEmpty([i \in 1..Len(list) |-> CleanupRelay(list[i])])
  IN Unique(cleaned)

\* no function has been called
NoCall == [fn |-> "none"]

SessionTypes == {"bunker", "nostr-connect"}

\* who sends a start request: the command line flows, or any client of the socket
Callers == {"flows", "socket"}

\* the calls made: normalizeRelays on a list, evaluate of a policy on an event kind
CallInputs ==
  {[fn |-> "normalizeRelays", arg |-> x, done |-> FALSE] : x \in RelayLists}
    \cup {[fn |-> "evaluate", policy |-> t, kind |-> k, done |-> FALSE] :
            t \in TemplateIds, k \in EventKinds}

\* the relay lists of start requests: the empty list, one entry, two short entries
StartRelayLists ==
  {<<>>} \cup {<<url>> : url \in StringsUpTo(MaxStartRelayLen)}
         \cup {<<a, b>> : a \in StringsUpTo(MaxPairLen), b \in StringsUpTo(MaxPairLen)}

\* the start requests: a session type, a caller and the relay list the caller was given
StartInputs ==
  {[fn |-> "start", type |-> ty, caller |-> c, arg |-> x, done |-> FALSE] :
     ty \in SessionTypes, c \in Callers, x \in StartRelayLists}

\* normalizeRelays is applied to the list, and again to its own result
ApplyNormalizeRelays ==
  /\ call.fn = "normalizeRelays" /\ ~call.done
  /\ call' = [fn |-> "normalizeRelays", arg |-> call.arg, done |-> TRUE,
              out |-> NormalizeRelays(call.arg),
              again |-> NormalizeRelays(NormalizeRelays(call.arg))]
  /\ UNCHANGED <<amVars, smVars, paVars, siVars, lastEvent, conns, sd, flow, activityLog, recorded, vault, notified, lastPermission>>

\* policy.evaluate is applied to the event, twice
ApplyEvaluate ==
  /\ call.fn = "evaluate" /\ ~call.done
  /\ call' = [fn |-> "evaluate", policy |-> call.policy, kind |-> call.kind, done |-> TRUE,
              out |-> Evaluate(call.policy, call.kind),
              again |-> Evaluate(call.policy, call.kind)]
  /\ UNCHANGED <<amVars, smVars, paVars, siVars, lastEvent, conns, sd, flow, activityLog, recorded, vault, notified, lastPermission>>

\* the relays of the request: startBunkerFlow and startNostrConnectFlow normalize the
\* list they were given, a client of the socket writes the list as it is
RequestRelays(caller, list) == IF caller = "flows" THEN NormalizeRelays(list) ELSE list

\* createSessionRecord({..., relays: req.relays, ...}): the relays of the record
RecordRelays(relays) == relays

\* start-bunker or start-nostr-connect: the record is persisted with its relays
ApplyStartSession ==
  /\ call.fn = "start" /\ ~call.done
  /\ call' = [fn |-> "start", type |-> call.type, caller |-> call.caller, arg |-> call.arg,
              done |-> TRUE,
              request |-> RequestRelays(call.caller, call.arg),
              stored |-> RecordRelays(RequestRelays(call.caller, call.arg))]
  /\ UNCHANGED <<amVars, smVars, paVars, siVars, lastEvent, conns, sd, flow, activityLog,
                 recorded, vault, notified, lastPermission>>

----------------------------------------------------------------------------
(* Where values go: the signing key's secret and the places the daemon writes to.
   A value is named by the expression that produces it; a document (a row, an activity
   entry, a response) is the set of the values written into it. *)

\* the activities a provider emits (ProviderActivity)
ActivityTypes ==
  {"sign-request", "sign-decision", "client-connected", "client-disconnected",
   "connect-request", "nip04", "nip44"}

\* nothing fetched, nothing written
NoFlow == [signer |-> {}, rows |-> {}, entries |-> {}, responses |-> {}, tasks |-> {}]

\* getKeyRecordById: the metadata of keys.json and the secret fetched from the vault
KeyRecord == [meta |-> {"key.meta"}, secret |-> {"key.secret"}]

\* the record createSessionRecord builds from the start request
CreateSessionRecord(type) ==
  [id |-> {"sessionId"}, type |-> {type}, keyId |-> {"req.keyId"},
   alias |-> {"req.alias", "sessionId"}, relays |-> {"req.relays"},
   secret |-> IF type = "bunker" THEN {"req.secret"} ELSE {},
   uri |-> IF type = "bunker" THEN {} ELSE {"req.uri"},
   autoApprove |-> {"req.autoApprove"}, status |-> {"status"}, lastClient |-> {},
   active |-> {"active"}, template |-> {"req.template"}]

\* upsertSession binds every field of the record, the secret column included
SessionRow(record) == UNION {record[f] : f \in DOMAIN record}

\* toSessionInfo copies every field but the secret
ToSessionInfo(record) == UNION {record[f] : f \in DOMAIN record \ {"secret"}}

\* a provider that is handed the key's secret as its shared secret
ProviderSecretFromKey(record, key) == key.secret

\* the secret option of buildProvider: the session's shared secret for a bunker
ProviderSecret(record, key) == IF record.type = {"bunker"} THEN record.secret ELSE {}

\* provider.getBunkerURI(): the signer's public key, the relays and the secret option
BunkerURI(record, key) == {"signer.pubkey"} \cup record.relays \cup ProviderSecret(record, key)

\* what handleProviderActivity writes into the entry (summary, client and metadata)
ActivityEntry(type) ==
  {"sessionId", "req.alias"} \cup
  CASE type = "sign-request" -> {"client", "draft"}
    [] type = "sign-decision" -> {"client", "draft", "approved"}
    [] type = "client-connected" -> {"client"}
    [] type = "client-disconnected" -> {"client"}
    [] type = "connect-request" -> {"client", "permissions", "approved"}
    [] type = "nip04" -> {"client", "mode", "peer"}
    [] type = "nip44" -> {"client", "mode", "peer"}

\* a start request whose key is in the store: createSessionRecord writes the row and the
\* session-start entry, registerSessionRuntime fetches the key, builds the signer and the
\* provider, a bunker stores its URI, and the response is returned
StartSessionValues(type) ==
  LET created == CreateSessionRecord(type)
      record == IF type = "bunker"
                  THEN [created EXCEPT !.uri = BunkerURI(created, KeyRecord)]
                  ELSE created
  IN /\ flow' = [flow EXCEPT
           !.signer = KeyRecord.secret,
           !.rows = @ \cup {created, record},
           !.entries = @ \cup {"sessionId", "req.alias", "req.relays", type},
           !.responses = @ \cup {"sessionId"} \cup (IF type = "bunker" THEN record.uri ELSE {})]
     /\ UNCHANGED <<amVars, smVars, paVars, siVars, lastEvent, conns, sd, call,
                 activityLog, recorded, vault, notified, lastPermission>>

\* a start request naming a key that is not in the store: the row and the entry are
\* written, registerSessionRuntime throws and the message is the response
StartSessionKeyMissing(type) ==
  LET created == CreateSessionRecord(type)
  IN /\ flow' = [flow EXCEPT
           !.rows = @ \cup {created},
           !.entries = @ \cup {"sessionId", "req.alias", "req.relays", type},
           !.responses = @ \cup created.keyId]
     /\ UNCHANGED <<amVars, smVars, paVars, siVars, lastEvent, conns, sd, call,
                 activityLog, recorded, vault, notified, lastPermission>>

\* a provider built with the signer emits an activity and handleProviderActivity records it
ProviderActivityValues(type) ==
  /\ flow.signer # {}
  /\ flow' = [flow EXCEPT !.entries = @ \cup ActivityEntry(type)]
  /\ UNCHANGED <<amVars, smVars, paVars, siVars, lastEvent, conns, sd, call,
                 activityLog, recorded, vault, notified, lastPermission>>

\* a referred sign request: createPendingApproval and the approval_tasks row
ReferredValues ==
  /\ flow.signer # {}
  /\ flow' = [flow EXCEPT
        !.tasks = @ \cup {"approvalId", "sessionId", "req.alias", "client", "draft", "policy"}]
  /\ UNCHANGED <<amVars, smVars, paVars, siVars, lastEvent, conns, sd, call,
                 activityLog, recorded, vault, notified, lastPermission>>

\* list-sessions: records.map(toSessionInfo)
ListSessionsValues ==
  /\ flow' = [flow EXCEPT !.responses = @ \cup UNION {ToSessionInfo(r) : r \in flow.rows}]
  /\ UNCHANGED <<amVars, smVars, paVars, siVars, lastEvent, conns, sd, call,
                 activityLog, recorded, vault, notified, lastPermission>>

\* list-activity: the entries themselves
ListActivityValues ==
  /\ flow' = [flow EXCEPT !.responses = @ \cup flow.entries]
  /\ UNCHANGED <<amVars, smVars, paVars, siVars, lastEvent, conns, sd, call,
                 activityLog, recorded, vault, notified, lastPermission>>

\* list-approvals: the pending approvals themselves
ListApprovalsValues ==
  /\ flow' = [flow EXCEPT !.responses = @ \cup flow.tasks]
  /\ UNCHANGED <<amVars, smVars, paVars, siVars, lastEvent, conns, sd, call,
                 activityLog, recorded, vault, notified, lastPermission>>

\* stop-session, rename-session, update-session-template: a session entry and {ok}
SessionRequestValues ==
  /\ flow.rows # {}
  /\ flow' = [flow EXCEPT !.entries = @ \cup {"sessionId", "req.alias", "template.label"},
                          !.responses = @ \cup {"ok"}]
  /\ UNCHANGED <<amVars, smVars, paVars, siVars, lastEvent, conns, sd, call,
                 activityLog, recorded, vault, notified, lastPermission>>

----------------------------------------------------------------------------
(* The activity log (api/activity-log.ts) *)

MAX_LOG_ENTRIES == 200

\* the log that keeps every entry
ActivityLogUnbounded(log, enriched) == <<enriched>> \o log

\* activityLog.unshift(enriched); if (activityLog.length > MAX_LOG_ENTRIES) activityLog.pop()
ActivityLogAfter(log, enriched) ==
  LET unshifted == <<enriched>> \o log
  IN IF Len(unshifted) > MAX_LOG_ENTRIES
       THEN SubSeq(unshifted, 1, Len(unshifted) - 1)
       ELSE unshifted

\* recordActivity(entry), no caller giving a timestamp: a fresh id (randomUUID, here the
\* number of the call) and Date.now()
RecordActivity ==
  /\ recorded < MaxRecords
  /\ recorded' = recorded + 1
  /\ activityLog' = ActivityLogAfter(activityLog, [id |-> recorded + 1, timestamp |-> now])
  /\ UNCHANGED <<amVars, smVars, paVars, siVars, lastEvent, conns, sd, call, flow, vault, notified, lastPermission>>

\* the clock of the log moves
LogTick ==
  /\ now < MaxLogTime
  /\ Tick
  /\ UNCHANGED <<smVars, paVars, siVars, ioVars>>

----------------------------------------------------------------------------
(* The secret store (api/keychain.ts) and deleteKey (api/key-store.ts) *)

Accounts == {"intercessio-1", "intercessio-2"}
VaultSecrets == {"nsec1", "nsec2"}
NoSecret == "none"
NotFound == "Secret not found"
SERVICE_NAME == "intercessio"

\* the key managers the process can find: darwin has the keychain, linux may have
\* kwallet-query, secret-tool, both or neither
Environments ==
  {{"keychain"}, {"kwallet"}, {"gnome-keyring"}, {"kwallet", "gnome-keyring"}, {}}

EmptyStore == [a \in Accounts |-> NoSecret]

\* before the process has looked at its platform: nothing stored anywhere
NoVault ==
  [detected |-> FALSE, env |-> {}, keychain |-> EmptyStore, kwallet |-> EmptyStore, gnome |-> {},
   file |-> EmptyStore, keys |-> {}, ref |-> EmptyStore,
   last |-> [op |-> "none", account |-> "none", result |-> "none"]]

\* secret-tool: the items whose attributes include every attribute of the query
GnomeMatches(items, query) == {it \in items : query \subseteq it.attrs}

\* secret-tool store --label="intercessio" <account> password: an item whose one attribute
\* is named by the account and has the value "password"; an item with the same attributes
\* is replaced
GnomeStore(items, account, secret) ==
  LET attrs == {<<account, "password">>}
  IN {it \in items : it.attrs # attrs} \cup {[attrs |-> attrs, secret |-> secret]}

\* the attributes of lookup and clear: account <account> service intercessio
GnomeQuery(account) == {<<"account", account>>, <<"service", SERVICE_NAME>>}

\* "Delete operation not supported by kwallet-query, secret will remain in wallet"
KWalletAfterDelete(store, account) == store

\* storeSecretInKeychainWithStorageType: the first key manager found takes the secret,
\* else the encrypted file
StoreSecret(v, account, secret) ==
  IF "keychain" \in v.env THEN [v EXCEPT !.keychain[account] = secret]
  ELSE IF "kwallet" \in v.env THEN [v EXCEPT !.kwallet[account] = secret]
  ELSE IF "gnome-keyring" \in v.env
    THEN [v EXCEPT !.gnome = GnomeStore(v.gnome, account, secret)]
  ELSE [v EXCEPT !.file[account] = secret]

\* fetchSecretFromKeychain: each key manager found is asked in turn, a failed command
\* falls through to the next, and the encrypted file is the last
FetchSecret(v, account) ==
  IF "keychain" \in v.env /\ v.keychain[account] # NoSecret THEN v.keychain[account]
  ELSE IF "kwallet" \in v.env /\ v.kwallet[account] # NoSecret THEN v.kwallet[account]
  ELSE IF "gnome-keyring" \in v.env /\ GnomeMatches(v.gnome, GnomeQuery(account)) # {}
    THEN (CHOOSE it \in GnomeMatches(v.gnome, GnomeQuery(account)) : TRUE).secret
  ELSE IF v.file[account] # NoSecret THEN v.file[account]
  ELSE NotFound

\* deleteSecretFromKeychain: the keychain deletes and returns, an absent item (code 44)
\* falls through; kwallet returns without deleting; secret-tool clear; else the file
DeleteSecret(v, account) ==
  IF "keychain" \in v.env /\ v.keychain[account] # NoSecret
    THEN [v EXCEPT !.keychain[account] = NoSecret]
  ELSE IF "kwallet" \in v.env
    THEN [v EXCEPT !.kwallet = KWalletAfterDelete(v.kwallet, account)]
  ELSE IF "gnome-keyring" \in v.env
    THEN [v EXCEPT !.gnome = v.gnome \ GnomeMatches(v.gnome, GnomeQuery(account))]
  ELSE [v EXCEPT !.file[account] = NoSecret]

\* the process finds its platform and key managers
DetectEnvironment(env) ==
  /\ ~vault.detected
  /\ vault' = [vault EXCEPT !.detected = TRUE, !.env = env]
  /\ UNCHANGED <<amVars, smVars, paVars, siVars, lastEvent, conns, sd, call, flow,
                 activityLog, recorded, notified, lastPermission>>

\* persistSecret: the secret is stored under the key's account and the key is listed
PersistSecret(account, secret) ==
  /\ vault.detected
  /\ vault' = [StoreSecret(vault, account, secret) EXCEPT
                 !.keys = @ \cup {account},
                 !.ref[account] = secret,
                 !.last = [op |-> "put", account |-> account, result |-> "ok"]]
  /\ UNCHANGED <<amVars, smVars, paVars, siVars, lastEvent, conns, sd, call, flow,
                 activityLog, recorded, notified, lastPermission>>

\* getKeyRecordById: fetchSecretFromKeychain(meta.keychainAccount)
FetchSecretFromKeychain(account) ==
  /\ vault.detected
  /\ vault' = [vault EXCEPT
                 !.last = [op |-> "get", account |-> account,
                           result |-> FetchSecret(vault, account)]]
  /\ UNCHANGED <<amVars, smVars, paVars, siVars, lastEvent, conns, sd, call, flow,
                 activityLog, recorded, notified, lastPermission>>

\* deleteSecretFromKeychain(account), the account stored or not
DeleteSecretFromKeychain(account) ==
  /\ vault.detected
  /\ vault' = [DeleteSecret(vault, account) EXCEPT
                 !.ref[account] = NoSecret,
                 !.last = [op |-> "delete", account |-> account, result |-> "ok"]]
  /\ UNCHANGED <<amVars, smVars, paVars, siVars, lastEvent, conns, sd, call, flow,
                 activityLog, recorded, notified, lastPermission>>

\* deleteKey(id) of a listed key: its secret is deleted and the key leaves keys.json
DeleteKeyAndSecret(account) ==
  /\ vault.detected
  /\ account \in vault.keys
  /\ vault' = [DeleteSecret(vault, account) EXCEPT
                 !.keys = @ \ {account},
                 !.ref[account] = NoSecret,
                 !.last = [op |-> "deleteKey", account |-> account, result |-> "ok"]]
  /\ UNCHANGED <<amVars, smVars, paVars, siVars, lastEvent, conns, sd, call, flow,
                 activityLog, recorded, notified, lastPermission>>

----------------------------------------------------------------------------
(* The approval notification (api/ntfy.ts), published by createApprovalTask *)

\* how a publish ends: NTFY_TOPIC not set, fetch rejects, an answer that is not 2xx, sent
PublishOutcomes == {"no-topic", "network-error", "non-2xx", "sent"}
PublishFailures == {"no-topic", "network-error", "non-2xx"}

NoNotification == [id \in TaskIds |-> "none"]

\* a failed publish that rejects the task
TasksAfterPublishRejected(tbl, id) == UpdateApprovalTaskStatus(tbl, id, "rejected")

\* the approval_tasks table after a publish has failed: the catch only logs a warning
TasksAfterPublishFailure(tbl, id) == tbl

\* createApprovalTask with its call of publishApprovalNotification: without a topic the
\* publish returns at once, else the fetch is in flight when createApprovalTask returns
CreateApprovalTaskNotified(sessionId, expiresAt, topic) ==
  /\ CreateApprovalTask(sessionId, expiresAt)
  /\ notified' = [notified EXCEPT ![FreshTaskId] = IF topic THEN "in-flight" ELSE "no-topic"]
  /\ UNCHANGED <<smVars, paVars, siVars, lastEvent, conns, sd, call, flow, activityLog,
                 recorded, vault, lastPermission>>

\* the fetch settles: a rejection or an answer that is not ok is thrown inside the
\* publish and ends in the catch of createApprovalTask
PublishSettled(id, outcome) ==
  /\ notified[id] = "in-flight"
  /\ outcome # "no-topic"
  /\ notified' = [notified EXCEPT ![id] = outcome]
  /\ approval_tasks' =
       IF outcome \in PublishFailures THEN TasksAfterPublishFailure(approval_tasks, id)
       ELSE approval_tasks
  /\ UNCHANGED <<now, waiters, orphanTimers, taskDecision, taskResolves, taskCause>>
  /\ UNCHANGED <<smVars, paVars, siVars, lastEvent, conns, sd, call, flow, activityLog,
                 recorded, vault, lastPermission>>

----------------------------------------------------------------------------
(* Connect and encryption requests (api/provider.ts, requestHandlerFactory) *)

\* the requests the provider hands to onConnect, onNip04Encrypt, onNip04Decrypt,
\* onNip44Encrypt and onNip44Decrypt
PermissionMethods == {"connect", "nip04_encrypt", "nip04_decrypt", "nip44_encrypt",
                      "nip44_decrypt"}

\* no such request has been handled yet
NoPermission == [sessionId |-> "none", method |-> "none", reply |-> "none", log |-> <<>>]

\* the activity handleProviderActivity records for what the handler emits
PermissionActivity(method, approved) ==
  IF method = "connect" THEN [type |-> "provider-connect", approved |-> approved]
  ELSE IF method \in {"nip04_encrypt", "nip04_decrypt"}
         THEN [type |-> "nip04", approved |-> "none"]
         ELSE [type |-> "nip44", approved |-> "none"]

\* a handler that asks the session's policy first
PermissionApprovedByPolicy(autoApprove, policy) ==
  IF Evaluate(policy, 4) = "SIGN" THEN EnsurePrompt(autoApprove, FALSE) ELSE Bool(FALSE)

\* approved = await ensurePrompt(question, true): forcePrompt keeps its default, and
\* policyRef, though in scope, is not read
PermissionApproved(autoApprove, policy) == EnsurePrompt(autoApprove, FALSE)

\* onConnect / onNip04Encrypt / onNip04Decrypt / onNip44Encrypt / onNip44Decrypt of the
\* provider built for a session: ensurePrompt, then the activity is emitted and approved
\* is returned; a throw of ensurePrompt leaves the handler before the emit
PermissionRequest(sessionId, method) ==
  /\ provider[sessionId] = "running"
  /\ LET approved == PermissionApproved(records[sessionId].autoApprove, policyRef[sessionId])
     IN lastPermission' =
          [sessionId |-> sessionId, method |-> method, reply |-> approved,
           log |-> IF approved = "threw" THEN <<>>
                   ELSE <<PermissionActivity(method, approved)>>]
  /\ UNCHANGED <<amVars, smVars, paVars, siVars, lastEvent, conns, sd, call, flow,
                 activityLog, recorded, vault, notified>>

----------------------------------------------------------------------------
(* Specifications *)

InitDaemon ==
  /\ now = 0
  /\ approval_tasks = <<>>
  /\ waiters = {}
  /\ orphanTimers = {}
  /\ taskDecision = [id \in TaskIds |-> "none"]
  /\ taskResolves = [id \in TaskIds |-> 0]
  /\ taskCause = [id \in TaskIds |-> "none"]
  /\ sessions = <<>>
  /\ keys = {"k1"}
  /\ runtimes = {}
  /\ records = <<>>
  /\ policyRef = [s \in SessionIds |-> "none"]
  /\ reg = [s \in SessionIds |-> "none"]
  /\ regFrom = [s \in SessionIds |-> "none"]
  /\ provider = [s \in SessionIds |-> "none"]
  /\ waiting = {}
  /\ stopOp = [s \in SessionIds |-> "none"]
  /\ issued = {}
  /\ phase = "serving"
  /\ toRestore = {}
  /\ boots = 0
  /\ approvals = <<>>
  /\ decisions = [id \in ApprovalIds |-> "none"]
  /\ approvalCause = [id \in ApprovalIds |-> "none"]
  /\ lastResponse = "none"
  /\ lastSign = NoSign
  /\ referLog = [id \in ApprovalIds |-> <<>>]
  /\ referReply = [id \in ApprovalIds |-> "none"]
  /\ pc = [p \in Procs |-> "off"]
  /\ launches = [p \in Procs |-> 0]
  /\ socketFile = NoProc
  /\ listening = {}
  /\ lastEvent = NoEvent
  /\ conns = [k \in Conns |-> NoData]
  /\ sd = NoShutdown
  /\ flow = NoFlow
  /\ activityLog = <<>>
  /\ recorded = 0
  /\ vault = NoVault
  /\ notified = NoNotification
  /\ lastPermission = NoPermission

\* the state after construction, no function called
Init == InitDaemon /\ call = NoCall

\* the daemon untouched, one call about to be made
InitFN == InitDaemon /\ call \in CallInputs

\* the daemon untouched, one start request about to be sent
InitRS == InitDaemon /\ call \in StartInputs

\* the approval manager, called in any order
NextAM ==
  \/ \E s \in SessionIds, e \in 0..MaxTime : CreateApprovalTask(s, e) /\ UNCHANGED <<smVars, paVars, siVars, ioVars>>
  \/ \E id \in TaskIds : WaiterTimeout(id) /\ UNCHANGED <<smVars, paVars, siVars, ioVars>>
  \/ \E id \in TaskIds, st \in Decisions : ResolveApproval(id, st) /\ UNCHANGED <<smVars, paVars, siVars, ioVars>>
  \/ \E id \in TaskIds : ExpirePendingTask(id) /\ UNCHANGED <<smVars, paVars, siVars, ioVars>>
  \/ RestorePendingApprovalTimers /\ UNCHANGED <<smVars, paVars, siVars, ioVars>>
  \/ \E id \in TaskIds : OrphanTimeout(id) /\ UNCHANGED <<smVars, paVars, siVars, ioVars>>
  \/ \E id \in TaskIds : GetApprovalDetails(id) /\ UNCHANGED <<smVars, paVars, siVars, ioVars>>
  \/ Tick /\ UNCHANGED <<smVars, paVars, siVars, ioVars>>
  \/ Restart /\ UNCHANGED <<siVars, ioVars>>

\* the daemon: control plane, provider callbacks, resumed handlers, restart
Next ==
  \/ \E k \in KeyIds, sec \in SecretInputs, a \in AutoApproveInputs, t \in TemplateInputs,
          ok \in BOOLEAN :
       StartBunkerSession(k, sec, a, t, ok) /\ UNCHANGED <<siVars, ioVars>>
  \/ \E k \in KeyIds, u \in BOOLEAN, a \in AutoApproveInputs, t \in TemplateInputs,
          ok \in BOOLEAN :
       StartNostrConnectSession(k, u, a, t, ok) /\ UNCHANGED <<siVars, ioVars>>
  \/ \E s \in SessionIds : RegisterKeyLoaded(s) /\ UNCHANGED <<siVars, ioVars>>
  \/ \E s \in SessionIds, started \in BOOLEAN, ok \in BOOLEAN :
       RegisterProviderStarted(s, started, ok) /\ UNCHANGED <<siVars, ioVars>>
  \/ \E s \in SessionIds, resumed \in BOOLEAN : RegisterResumed(s, resumed) /\ UNCHANGED <<siVars, ioVars>>
  \/ \E s \in SessionIds, c \in Clients : ClientConnected(s, c) /\ UNCHANGED <<siVars, ioVars>>
  \/ \E s \in SessionIds, remove \in BOOLEAN : StopSession(s, remove) /\ UNCHANGED <<siVars, ioVars>>
  \/ \E s \in SessionIds : StopProviderStopped(s) /\ UNCHANGED <<siVars, ioVars>>
  \/ \E s \in SessionIds, kind \in DaemonKinds : SignRequest(s, kind) /\ UNCHANGED <<siVars, ioVars>>
  \/ \E req \in ResolveRequests : HandleResolveApproval(req) /\ UNCHANGED <<siVars, ioVars>>
  \/ \E k \in KeyIds : DeleteKey(k) /\ UNCHANGED <<siVars, ioVars>>
  \/ Restart /\ UNCHANGED <<siVars, ioVars>>
  \/ \E s \in SessionIds : RestoreNext(s) /\ UNCHANGED <<siVars, ioVars>>
  \/ FinishBoot /\ UNCHANGED <<siVars, ioVars>>

\* daemon processes started and stopped against one socket path
NextSI ==
  \/ \E p \in Procs : Launch(p) /\ UNCHANGED <<amVars, smVars, paVars, ioVars>>
  \/ \E p \in Procs : EnsureNoRunningInstance(p) /\ UNCHANGED <<amVars, smVars, paVars, ioVars>>
  \/ \E p \in Procs : CleanupRefused(p) /\ UNCHANGED <<amVars, smVars, paVars, ioVars>>
  \/ \E p \in Procs : CleanupBeforeRestore(p) /\ UNCHANGED <<amVars, smVars, paVars, ioVars>>
  \/ \E p \in Procs : Listen(p) /\ UNCHANGED <<amVars, smVars, paVars, ioVars>>
  \/ \E p \in Procs : ShutdownServer(p) /\ UNCHANGED <<amVars, smVars, paVars, ioVars>>
  \/ \E p \in Procs : Kill(p) /\ UNCHANGED <<amVars, smVars, paVars, ioVars>>

\* the signing pipeline of sessions that start without failures: sign requests of
\* every kind, policy swaps, decisions and stops
NextPL ==
  \/ \E k \in KeyIds, sec \in SecretInputs, a \in BOOLEAN, t \in PipelineTemplates :
       StartBunkerSession(k, sec, a, t, TRUE) /\ UNCHANGED <<siVars, ioVars>>
  \/ \E s \in SessionIds : RegisterKeyLoaded(s) /\ UNCHANGED <<siVars, ioVars>>
  \/ \E s \in SessionIds : RegisterProviderStarted(s, TRUE, TRUE) /\ UNCHANGED <<siVars, ioVars>>
  \/ \E s \in SessionIds, kind \in PipelineKinds : SignRequest(s, kind) /\ UNCHANGED <<siVars, ioVars>>
  \/ \E req \in LegacyResolveRequests : HandleResolveApproval(req) /\ UNCHANGED <<siVars, ioVars>>
  \/ \E s \in SessionIds, t \in UpdateInputs : UpdateSessionTemplate(s, t) /\ UNCHANGED <<siVars, ioVars>>
  \/ \E s \in SessionIds : StopSession(s, FALSE) /\ UNCHANGED <<siVars, ioVars>>
  \/ \E s \in SessionIds : StopProviderStopped(s) /\ UNCHANGED <<siVars, ioVars>>

\* sessions and the events of their providers: starts that may fail, connects and
\* disconnects of any peer, stops and deletes
NextCE ==
  \/ \E k \in KeyIds, sec \in SecretInputs, a \in AutoApproveInputs, t \in TemplateInputs :
       StartBunkerSession(k, sec, a, t, TRUE) /\ UNCHANGED <<siVars, ioVars>>
  \/ \E k \in KeyIds, u \in BOOLEAN, a \in AutoApproveInputs, t \in TemplateInputs :
       StartNostrConnectSession(k, u, a, t, TRUE) /\ UNCHANGED <<siVars, ioVars>>
  \/ \E s \in SessionIds : RegisterKeyLoaded(s) /\ UNCHANGED <<siVars, ioVars>>
  \/ \E s \in SessionIds, started \in BOOLEAN :
       RegisterProviderStarted(s, started, TRUE) /\ UNCHANGED <<siVars, ioVars>>
  \/ \E s \in SessionIds, c \in Peers : FirstClientConnected(s, c) /\ UNCHANGED siVars
  \/ \E s \in SessionIds, c \in Peers : ClientConnectedEvent(s, c) /\ UNCHANGED siVars
  \/ \E s \in SessionIds, c \in Peers : ClientDisconnectedEvent(s, c) /\ UNCHANGED siVars
  \/ \E s \in SessionIds, remove \in BOOLEAN : StopSession(s, remove) /\ UNCHANGED <<siVars, ioVars>>
  \/ \E s \in SessionIds : StopProviderStopped(s) /\ UNCHANGED <<siVars, ioVars>>

\* clients writing lines on their connections, handlers resuming
NextIPC ==
  \/ \E k \in Conns, line \in Lines : Data(k, line)
  \/ \E k \in Conns : DataResumed(k)

\* the daemon draining: requests taken until the socket is closed, suspended handlers
\* resuming until the exit, then the next boot
NextSD ==
  \/ \E k \in KeyIds, sec \in SecretInputs, a \in AutoApproveInputs, t \in TemplateInputs :
       Accepting /\ StartBunkerSession(k, sec, a, t, TRUE) /\ UNCHANGED <<siVars, ioVars>>
  \/ \E s \in SessionIds :
       sd.phase # "exited" /\ RegisterKeyLoaded(s) /\ UNCHANGED <<siVars, ioVars>>
  \/ \E s \in SessionIds :
       sd.phase # "exited" /\ RegisterProviderStarted(s, TRUE, TRUE) /\ UNCHANGED <<siVars, ioVars>>
  \/ \E s \in SessionIds :
       Accepting /\ StopSession(s, FALSE) /\ UNCHANGED <<siVars, ioVars>>
  \/ \E s \in SessionIds :
       sd.phase # "exited" /\ StopProviderStopped(s) /\ UNCHANGED <<siVars, ioVars>>
  \/ ShutdownRequested
  \/ \E cause \in {"timer", "signal"} : StopAllSessions(cause)
  \/ \E s \in SessionIds : ProviderStopResolved(s)
  \/ ServerClose
  \/ ShutdownExit
  \/ BootAfterExit
  \/ \E s \in SessionIds : RestoreNext(s) /\ UNCHANGED <<siVars, ioVars>>
  \/ FinishBoot /\ UNCHANGED <<siVars, ioVars>>

\* the call is made
NextFN ==
  \/ ApplyNormalizeRelays
  \/ ApplyEvaluate

\* records and ticks of the clock
NextAL ==
  \/ RecordActivity
  \/ LogTick

SpecAL == Init /\ [][NextAL]_vars

\* the operations on the secret store
NextSV ==
  \/ \E env \in Environments : DetectEnvironment(env)
  \/ \E a \in Accounts, sec \in VaultSecrets : PersistSecret(a, sec)
  \/ \E a \in Accounts : FetchSecretFromKeychain(a)
  \/ \E a \in Accounts : DeleteSecretFromKeychain(a)
  \/ \E a \in Accounts : DeleteKeyAndSecret(a)

SpecSV == Init /\ [][NextSV]_vars

\* approval tasks with their notifications
NextNT ==
  \/ \E sid \in SessionIds, e \in 0..MaxTime, topic \in BOOLEAN :
       CreateApprovalTaskNotified(sid, e, topic)
  \/ \E id \in TaskIds, outcome \in PublishOutcomes : PublishSettled(id, outcome)
  \/ \E id \in TaskIds : WaiterTimeout(id) /\ UNCHANGED <<smVars, paVars, siVars, ioVars>>
  \/ \E id \in TaskIds, st \in Decisions :
       ResolveApproval(id, st) /\ UNCHANGED <<smVars, paVars, siVars, ioVars>>
  \/ Tick /\ UNCHANGED <<smVars, paVars, siVars, ioVars>>

SpecNT == Init /\ [][NextNT]_vars

\* sessions and their approval tasks: a task is created for a session in the runtime map,
\* and a boot restores the sessions and the timers of the pending tasks
NextTS ==
  \/ \E k \in KeyIds, sec \in SecretInputs, a \in AutoApproveInputs, t \in TemplateInputs :
       StartBunkerSession(k, sec, a, t, TRUE) /\ UNCHANGED <<siVars, ioVars>>
  \/ \E s \in SessionIds : RegisterKeyLoaded(s) /\ UNCHANGED <<siVars, ioVars>>
  \/ \E s \in SessionIds :
       RegisterProviderStarted(s, TRUE, TRUE) /\ UNCHANGED <<siVars, ioVars>>
  \/ \E s \in SessionIds : StopSession(s, FALSE) /\ UNCHANGED <<siVars, ioVars>>
  \/ \E s \in SessionIds : StopProviderStopped(s) /\ UNCHANGED <<siVars, ioVars>>
  \/ \E s \in runtimes, e \in 1..MaxTime :
       CreateApprovalTask(s, e) /\ UNCHANGED <<smVars, paVars, siVars, ioVars>>
  \/ \E id \in TaskIds : WaiterTimeout(id) /\ UNCHANGED <<smVars, paVars, siVars, ioVars>>
  \/ \E id \in TaskIds, st \in Decisions :
       ResolveApproval(id, st) /\ UNCHANGED <<smVars, paVars, siVars, ioVars>>
  \/ \E id \in TaskIds : OrphanTimeout(id) /\ UNCHANGED <<smVars, paVars, siVars, ioVars>>
  \/ Tick /\ UNCHANGED <<smVars, paVars, siVars, ioVars>>
  \/ Restart /\ UNCHANGED <<siVars, ioVars>>
  \/ phase = "restoring" /\ RestorePendingApprovalTimers
       /\ UNCHANGED <<smVars, paVars, siVars, ioVars>>
  \/ \E s \in SessionIds : RestoreNext(s) /\ UNCHANGED <<siVars, ioVars>>
  \/ FinishBoot /\ UNCHANGED <<siVars, ioVars>>

SpecTS == Init /\ [][NextTS]_vars

\* the start request is sent and its record persisted
NextRS ==
  \/ ApplyStartSession

SpecRS == InitRS /\ [][NextRS]_vars

\* the writers of a session's row: start, registration, the first client, the template
\* update and the rename
NextWR ==
  \/ \E k \in KeyIds, sec \in SecretInputs, a \in AutoApproveInputs, t \in TemplateInputs :
       StartBunkerSession(k, sec, a, t, TRUE) /\ UNCHANGED <<siVars, ioVars>>
  \/ \E s \in SessionIds : RegisterKeyLoaded(s) /\ UNCHANGED <<siVars, ioVars>>
  \/ \E s \in SessionIds :
       RegisterProviderStarted(s, TRUE, TRUE) /\ UNCHANGED <<siVars, ioVars>>
  \/ \E s \in SessionIds, c \in Clients : ClientConnected(s, c) /\ UNCHANGED <<siVars, ioVars>>
  \/ \E s \in SessionIds, t \in UpdateInputs :
       UpdateSessionTemplate(s, t) /\ UNCHANGED <<siVars, ioVars>>
  \/ \E s \in SessionIds, a \in AliasInputs :
       RenameSession(s, a) /\ UNCHANGED <<siVars, ioVars>>

SpecWR == Init /\ [][NextWR]_vars

\* sessions of every autoApprove flag and policy with sign, connect and encryption requests
NextPM ==
  \/ \E k \in KeyIds, sec \in SecretInputs, a \in BOOLEAN,
          t \in PipelineTemplates \cup TemplateInputs :
       StartBunkerSession(k, sec, a, t, TRUE) /\ UNCHANGED <<siVars, ioVars>>
  \/ \E s \in SessionIds : RegisterKeyLoaded(s) /\ UNCHANGED <<siVars, ioVars>>
  \/ \E s \in SessionIds : RegisterProviderStarted(s, TRUE, TRUE) /\ UNCHANGED <<siVars, ioVars>>
  \/ \E s \in SessionIds, t \in UpdateInputs : UpdateSessionTemplate(s, t) /\ UNCHANGED <<siVars, ioVars>>
  \/ \E s \in SessionIds, kind \in PipelineKinds : SignRequest(s, kind) /\ UNCHANGED <<siVars, ioVars>>
  \/ \E s \in SessionIds, m \in PermissionMethods : PermissionRequest(s, m)

SpecPM == Init /\ [][NextPM]_vars

SpecAM == Init /\ [][NextAM]_vars
SpecFN == InitFN /\ [][NextFN]_vars

\* requests and provider events, by the values they write
NextCF ==
  \/ \E type \in SessionTypes : StartSessionValues(type)
  \/ \E type \in SessionTypes : StartSessionKeyMissing(type)
  \/ \E type \in ActivityTypes : ProviderActivityValues(type)
  \/ ReferredValues
  \/ ListSessionsValues
  \/ ListActivityValues
  \/ ListApprovalsValues
  \/ SessionRequestValues

SpecCF == Init /\ [][NextCF]_vars
SpecSD == Init /\ [][NextSD]_vars
SpecIPC == Init /\ [][NextIPC]_vars
SpecCE == Init /\ [][NextCE]_vars
SpecPL == Init /\ [][NextPL]_vars
SpecSI == Init /\ [][NextSI]_vars
Spec == Init /\ [][Next]_vars

\* what the event loop and the timers guarantee: a suspended handler is resumed, an
\* armed timer fires, the boot loop goes on
Fairness ==
  /\ \A s \in SessionIds : WF_vars(RegisterKeyLoaded(s) /\ UNCHANGED <<siVars, ioVars>>)
  /\ \A s \in SessionIds :
       WF_vars((\E started \in BOOLEAN, ok \in BOOLEAN : RegisterProviderStarted(s, started, ok))
               /\ UNCHANGED <<siVars, ioVars>>)
  /\ \A s \in SessionIds :
       WF_vars((\E resumed \in BOOLEAN : RegisterResumed(s, resumed)) /\ UNCHANGED <<siVars, ioVars>>)
  /\ \A s \in SessionIds : WF_vars(StopProviderStopped(s) /\ UNCHANGED <<siVars, ioVars>>)
  /\ \A s \in SessionIds : WF_vars(RestoreNext(s) /\ UNCHANGED <<siVars, ioVars>>)
  /\ WF_vars(FinishBoot /\ UNCHANGED <<siVars, ioVars>>)

FairSpec == Spec /\ Fairness

----------------------------------------------------------------------------
(* Approval status and decisions *)

\* C1: once the stored status of an approval task is approved, rejected or expired, no
\* later step changes it
C1_StatusNeverLeavesFinal ==
  [][\A id \in DOMAIN approval_tasks :
       approval_tasks[id].status # "pending"
         => approval_tasks'[id].status = approval_tasks[id].status]_vars

\* a task whose status is final while a timer for it is still armed: the case C1 is about
C1_FinalWithArmedTimer ==
  \E id \in DOMAIN approval_tasks :
    /\ approval_tasks[id].status \in Decisions
    /\ id \in orphanTimers

\* C2: every pending decision future is eventually resolved
C2_EveryDecisionResolved ==
  \A id \in ApprovalIds : (decisions[id] = "pending") ~> (decisions[id] # "pending")

\* C3: the signing pipeline receives true only from an explicit approve applied while the
\* approval was pending; a stop or delete of the owning session delivers false
C3_TrueOnlyByApprove ==
  \A id \in ApprovalIds :
    /\ decisions[id] = "true" => approvalCause[id] = "approve"
    /\ approvalCause[id] \in {"stop", "stop-late", "reject"} => decisions[id] = "false"

\* both outcomes have been delivered: one approval approved, another rejected by a stop
C3_ApprovedAndStopped ==
  \E a, b \in ApprovalIds :
    /\ decisions[a] = "true" /\ approvalCause[a] = "approve"
    /\ decisions[b] = "false" /\ approvalCause[b] \in {"stop", "stop-late"}

\* C3 for the approval manager's futures: true only from resolveApproval(id, "approved")
\* on a waiting task, false from the waiter's timer
C3_ManagerTrueOnlyByApprove ==
  \A id \in TaskIds :
    /\ taskDecision[id] = "true" => taskCause[id] = "approved"
    /\ taskCause[id] = "timer" => taskDecision[id] = "false"

\* the step on which stopSession(s) runs rejectApprovalsForSession
StopCompletes(s) ==
  \/ StopProviderStopped(s)
  \/ \E remove \in BOOLEAN : StopSession(s, remove) /\ s \notin runtimes

C5_UndecidedReferDenied ==
  \A id \in ApprovalIds :
    (id \in DOMAIN approvals) ~>
      (decisions[id] = "false" \/ approvalCause[id] = "approve" \/ decisions[id] = "none")

\* C6: resolveApproval on a task that is unknown or not pending changes neither the
\* stored status nor the waiters nor the timers
C6_ResolveFinalChangesNothing ==
  [][\A id \in TaskIds, st \in Decisions :
       (/\ ResolveApproval(id, st)
        /\ (id \notin DOMAIN approval_tasks \/ approval_tasks[id].status # "pending"))
         => UNCHANGED <<approval_tasks, waiters, orphanTimers>>]_vars

\* a task that has been decided and whose waiter is gone
C6_DecidedTask ==
  \E id \in DOMAIN approval_tasks :
    approval_tasks[id].status \in Decisions /\ id \notin waiters

\* C7: a resolve-approval request {id, decision} for a pending approval is answered ok
\* and resolves the waiter with true for approve, false for reject
C7_TypedResolveWakesWaiter ==
  [][\A req \in TypedResolveRequests :
       (HandleResolveApproval(req) /\ req.id \in DOMAIN approvals)
         => /\ lastResponse' = "ok"
            /\ decisions'[req.id] = Bool(req.decision = "approve")]_vars

\* a pending approval exists and a request has been answered "Approval not found"
C7_PendingNotFound ==
  approvals # <<>> /\ lastResponse = "Approval not found"

----------------------------------------------------------------------------
(* Single instance *)

\* C11: a daemon that is listening on the socket file it created never has that file
\* unlinked by a cleanupSocket of another process's startup
C11_ListeningSocketNeverUnlinked ==
  [][\A p \in Procs : \A q \in Procs \ {p} :
       (/\ socketFile = p /\ p \in listening
        /\ CleanupRefused(q) \/ CleanupBeforeRestore(q)) => socketFile' = p]_vars

\* C11, first half: at most one process is serving
C11_AtMostOneServing ==
  Cardinality({p \in Procs : pc[p] = "serving"}) <= 1

\* one process is listening while the other has found nothing to connect to and is
\* about to run cleanupSocket
C11_ListeningDuringCleanup ==
  \E p, q \in Procs :
    /\ socketFile = p /\ p \in listening
    /\ pc[q] \in {"refused", "cleanup"}

----------------------------------------------------------------------------
(* Sessions *)

\* the step on which restoreSessionsOnBoot returns
BootCompletes == phase = "restoring" /\ phase' = "serving"

C9_InactiveStaysInactive ==
  [][\A s \in DOMAIN sessions :
       (~sessions[s].active /\ s \in DOMAIN sessions') => ~sessions'[s].active]_vars

\* a stop has completed for a session whose start is still suspended
C9_StoppedWhileStarting ==
  \E s \in DOMAIN sessions : ~sessions[s].active /\ Registering(s)

\* C10: a start that failed leaves no active row without a runtime
C10_FailedStartNotActive ==
  \A s \in SessionIds :
    (regFrom[s] = "start" /\ reg[s] \in FailedStates /\ s \in DOMAIN sessions)
      => (sessions[s].active => s \in runtimes)

\* a start has failed after its record was written
C10_FailedAfterWrite ==
  \E s \in DOMAIN sessions : regFrom[s] = "start" /\ reg[s] \in FailedStates

----------------------------------------------------------------------------
(* The signing pipeline *)

\* the policy the next sign request on s is decided by: the one its provider holds, or,
\* before the provider is built, the one registerSessionRuntime will take from its record
PolicyInEffect(s) ==
  IF policyRef[s] # "none" THEN policyRef[s] ELSE GetTemplateById(records[s].template)

\* C12: when update-session-template(s, t) with a known t is answered ok for a session
\* that is running or being started, the policy deciding the next sign request on s is t,
\* and the pending approvals of s keep the policy they were created with
C12_UpdateDecidesNextRequest ==
  [][\A s \in SessionIds, t \in UpdateInputs \cap TemplateIds :
       (/\ UpdateSessionTemplate(s, t)
        /\ lastResponse' = "ok"
        /\ Registering(s) \/ s \in runtimes)
         => /\ PolicyInEffect(s)' = t
            /\ \A id \in DOMAIN approvals :
                 id \in DOMAIN approvals' /\ approvals'[id].policy = approvals[id].policy]_vars

\* an update was answered ok while the session's registration is suspended
C12_UpdatedWhileStarting ==
  \E s \in DOMAIN sessions :
    /\ lastResponse = "ok" /\ Registering(s)
    /\ sessions[s].template = "online_login"

\* C13: update-session-template with a template id the registry does not have is not
\* answered ok and changes neither the persisted template nor the runtime's policy
C13_UnknownTemplateRefused ==
  [][\A s \in SessionIds, t \in UpdateInputs \ TemplateIds :
       UpdateSessionTemplate(s, t)
         => lastResponse' # "ok" /\ UNCHANGED <<sessions, policyRef>>]_vars

\* a session has been switched to the default template
C13_FellBackToDefault ==
  \E s \in DOMAIN sessions :
    sessions[s].template = DEFAULT_TEMPLATE_ID /\ policyRef[s] = DEFAULT_TEMPLATE_ID

\* C14: a sign request the policy decides SIGN is answered approve
C14_SignRepliesApprove ==
  lastSign.decision = "SIGN" => lastSign.reply = Bool(TRUE)

\* a SIGN request was handled for a session without autoApprove
C14_SignWithoutAutoApprove ==
  /\ lastSign.decision = "SIGN"
  /\ ~records[lastSign.sessionId].autoApprove

\* C15: a sign request the policy decides REJECT is answered deny in the same step,
\* with no approval created
C15_RejectRepliesDeny ==
  [][\A s \in SessionIds, kind \in PipelineKinds :
       (SignRequest(s, kind) /\ Evaluate(policyRef[s], kind) = "REJECT")
         => /\ lastSign'.decision = "REJECT" /\ lastSign'.sessionId = s
            /\ lastSign'.reply = Bool(FALSE)
            /\ UNCHANGED <<approvals, decisions, referLog, referReply>>]_vars

\* a REJECT request has been answered while an approval is pending
C15_RejectedWhilePending ==
  lastSign.decision = "REJECT" /\ lastSign.reply = Bool(FALSE) /\ approvals # <<>>

\* C16, the step: a REFER request creates exactly one pending approval of its session
\* and sends no reply
ReferCreatesOne ==
  \A s \in SessionIds, kind \in PipelineKinds :
    (SignRequest(s, kind) /\ Evaluate(policyRef[s], kind) = "REFER")
      => /\ Cardinality(DOMAIN approvals' \ DOMAIN approvals) = 1
         /\ \A id \in DOMAIN approvals' \ DOMAIN approvals :
              /\ approvals'[id].sessionId = s
              /\ decisions'[id] = "pending"
              /\ referReply'[id] = "none"
         /\ lastSign' = lastSign

\* C16, the states: no reply while the approval is pending, the decision as reply once
\* it is resolved, and sign requests of running sessions and resolve-approval requests
\* can be handled meanwhile
ReferReplyFollowsDecision ==
  \A id \in ApprovalIds :
    /\ id \in DOMAIN approvals =>
         /\ referReply[id] = "none" /\ decisions[id] = "pending"
         /\ \A t \in SessionIds : provider[t] = "running" => ENABLED SignRequest(t, 22242)
         /\ ENABLED HandleResolveApproval([type |-> "resolve-approval", approvalId |-> id,
                                           approved |-> Bool(TRUE)])
    /\ decisions[id] \in {Bool(TRUE), Bool(FALSE)} => referReply[id] = decisions[id]

\* C16: a REFER request creates exactly one pending approval, is not answered before the
\* approval is resolved, is then answered with the decision, and does not block others
C16_ReferSuspendsUntilDecision ==
  []ReferReplyFollowsDecision /\ [][ReferCreatesOne]_vars

\* one REFER was answered approve, another deny, and a third request ran through
C16_BothDecisionsReplied ==
  \E a, b \in ApprovalIds :
    /\ referReply[a] = Bool(TRUE) /\ referReply[b] = Bool(FALSE)
    /\ lastSign # NoSign

\* C17: every sign request that has ended has recorded sign-request and then exactly one
\* sign-result carrying the reply
C17_ResultRecordedForEveryRequest ==
  /\ lastSign # NoSign =>
       lastSign.log = <<SignRequestActivity, SignResultActivity(lastSign.reply)>>
  /\ \A id \in ApprovalIds :
       referReply[id] # "none" =>
         referLog[id] = <<SignRequestActivity, SignResultActivity(referReply[id])>>

\* a sign request has ended by a throw
C17_RequestThrew ==
  lastSign.reply = "threw"

----------------------------------------------------------------------------
(* Approval timers restored at boot *)

\* the restore step expires every overdue pending row and arms a timer for every
\* other pending row, which stays pending
C19_RestoreExpiresOverdueArmsRest ==
  [][RestorePendingApprovalTimers =>
       \A id \in ListApprovalTasks(approval_tasks, {"pending"}) :
         IF approval_tasks[id].expiresAt <= now
           THEN approval_tasks'[id].status = "expired"
           ELSE approval_tasks'[id].status = "pending" /\ id \in orphanTimers']_vars

\* a restored timer does not expire its row before the row's own expiresAt
C19_RestoredTimerKeepsDeadline ==
  [][\A id \in TaskIds : OrphanTimeout(id) => now >= approval_tasks[id].expiresAt]_vars

\* C19: a pending row restored at boot (overdue ones are expired at once, the others get
\* a timer for their original expiresAt) never reaches status approved
C19_RestoredNeverApproved ==
  [][boots > 0 =>
       \A id \in orphanTimers \ waiters :
         approval_tasks[id].status # "approved" => approval_tasks'[id].status # "approved"]_vars

\* a row is pending after a restart with its timer re-armed before its deadline
C19_RestoredAndArmed ==
  /\ boots > 0
  /\ \E id \in orphanTimers \ waiters :
       approval_tasks[id].status = "pending" /\ approval_tasks[id].expiresAt > now

----------------------------------------------------------------------------
(* Bunker pairing *)

\* the persisted row of s is a bunker waiting for its first client
WaitingBunker(tbl, s) ==
  /\ s \in DOMAIN tbl
  /\ tbl[s].type = "bunker" /\ tbl[s].status = "waiting" /\ tbl[s].lastClient = NoClient

----------------------------------------------------------------------------
(* Client connects and disconnects *)

\* C21: after a client-connected event of peer c on a running session, the first or a
\* later one, the session's row is connected, active and has c as last client
C21_ConnectEventUpdatesRow ==
  [][\A s \in SessionIds, c \in Peers :
       ((FirstClientConnected(s, c) \/ ClientConnectedEvent(s, c)) /\ s \in DOMAIN sessions')
         => /\ sessions'[s].status = "connected"
            /\ sessions'[s].active
            /\ sessions'[s].lastClient = c]_vars

\* a peer's connect was recorded for a session whose row names another last client
C21_LaterPeerNotRecorded ==
  /\ lastEvent.type = "provider-connect"
  /\ lastEvent.sessionId \in DOMAIN sessions
  /\ provider[lastEvent.sessionId] = "running"
  /\ sessions[lastEvent.sessionId].lastClient # lastEvent.client

\* the step completes a stop-session or delete-session of s
StopCompletesIn(s) ==
  \/ \E remove \in BOOLEAN : StopSession(s, remove) /\ s \notin runtimes
  \/ StopProviderStopped(s)

\* C22: a client-disconnected event changes no session row, no record and no runtime
\* entry, and an active row is deactivated or removed only by a stop or delete
C22_OnlyStopDeactivates ==
  [][\A s \in SessionIds :
       /\ \A c \in Peers :
            ClientDisconnectedEvent(s, c) => UNCHANGED <<sessions, records, runtimes>>
       /\ (s \in DOMAIN sessions /\ sessions[s].active
             /\ (s \notin DOMAIN sessions' \/ ~sessions'[s].active))
            => StopCompletesIn(s)]_vars

\* the second half alone, for the daemon with failing starts, restarts and restores
C22_ActiveClearedOnlyByStop ==
  [][\A s \in SessionIds :
       (s \in DOMAIN sessions /\ sessions[s].active
          /\ (s \notin DOMAIN sessions' \/ ~sessions'[s].active))
         => StopCompletesIn(s)]_vars

\* a disconnect was recorded for a session that is still active and registered
C22_DisconnectedStillActive ==
  /\ lastEvent.type = "provider-disconnect"
  /\ lastEvent.sessionId \in runtimes
  /\ lastEvent.sessionId \in DOMAIN sessions
  /\ sessions[lastEvent.sessionId].active
  /\ sessions[lastEvent.sessionId].status = "connected"

\* C23: every persisted session with status connected has a last client
C23_ConnectedHasLastClient ==
  \A s \in DOMAIN sessions :
    sessions[s].status = "connected" => sessions[s].lastClient # NoClient

\* a nostr-connect session is registered and running
C23_NostrConnectRunning ==
  \E s \in runtimes :
    /\ s \in DOMAIN sessions /\ sessions[s].type = "nostr-connect"
    /\ provider[s] = "running"

\* the session has been stopped: its row is inactive, it has no runtime and no stop or
\* registration of it is suspended
AlreadyStopped(s) ==
  /\ s \in DOMAIN sessions /\ ~sessions[s].active
  /\ s \notin runtimes
  /\ stopOp[s] = "none" /\ ~Registering(s)

----------------------------------------------------------------------------
(* Control-socket requests *)

C26_EachRequestItsAnswer ==
  \A k \in Conns :
    /\ \A i \in 1..Len(conns[k].written) :
         conns[k].written[i].res = Answer(conns[k].written[i].req)
    /\ Len(conns[k].written) + conns[k].suspended = conns[k].events

\* data arrived on a connection while its handler was suspended
C26_DataWhileSuspended ==
  \E k \in Conns :
    /\ conns[k].suspended > 0
    /\ Len(conns[k].written) > 0

----------------------------------------------------------------------------
(* Shutdown *)

\* the steps of a shutdown come in the order answer (for a request), stop all, close,
\* unlink, exit
C27_StepsInOrder ==
  \E n \in 0..5 :
    \/ sd.log = SubSeq(<<"answered", "stop-all", "close", "unlink", "exit">>, 1, n)
    \/ sd.log = SubSeq(<<"stop-all", "close", "unlink", "exit">>, 1, n)

\* the steps of shutdownServer write no session row
C27_ShutdownKeepsRows ==
  [][(\/ ShutdownRequested
      \/ \E cause \in {"timer", "signal"} : StopAllSessions(cause)
      \/ \E s \in SessionIds : ProviderStopResolved(s)
      \/ ServerClose
      \/ ShutdownExit) => UNCHANGED sessions]_vars

\* the boot after the exit takes every active row into the restore loop
C27_ActiveRowsRestored ==
  [][BootAfterExit => toRestore' = ListActiveSessions(sessions)]_vars

\* C27: the shutdown has stopped every runtime provider and emptied the runtime map
\* before it closes the socket, unlinks the file and exits
C27_DrainedBeforeClose ==
  sd.phase \in {"closing", "exited"} =>
    /\ runtimes = {}
    /\ \A s \in SessionIds : provider[s] # "running"

\* the daemon has exited after a shutdown that stopped a running session
C27_ExitedAfterDrain ==
  /\ sd.phase = "exited"
  /\ \E s \in DOMAIN sessions : provider[s] = "stopped" /\ sessions[s].active

----------------------------------------------------------------------------
(* normalizeRelays and the policy table *)

\* the string matches ^wss?://[^/]+(/[^/]+)*$
MatchesRelayPattern(str) ==
  LET n == IF Len(str) >= 5 /\ SubSeq(str, 1, 5) = <<"w", "s", ":", "/", "/">> THEN 5
           ELSE IF Len(str) >= 6 /\ SubSeq(str, 1, 6) = <<"w", "s", "s", ":", "/", "/">> THEN 6
           ELSE 0
  IN /\ n > 0
     /\ Len(str) > n
     /\ str[n + 1] # "/" /\ str[Len(str)] # "/"
     /\ \A i \in (n + 1)..(Len(str) - 1) : ~(str[i] = "/" /\ str[i + 1] = "/")

\* the result of normalizeRelays has no entry twice and no entry ending in a slash
C28_UniqueNoTrailingSlash ==
  (call.fn = "normalizeRelays" /\ call.done) =>
    /\ \A i, j \in 1..Len(call.out) : call.out[i] = call.out[j] => i = j
    /\ \A i \in 1..Len(call.out) : call.out[i] # <<>> /\ call.out[i][Len(call.out[i])] # "/"

\* C28: normalizeRelays applied to its own result gives that result again, the result has
\* no duplicates, and every entry matches ^wss?://[^/]+(/[^/]+)*$ without trailing slash
C28_NormalizeIdempotentWellFormed ==
  (call.fn = "normalizeRelays" /\ call.done) =>
    /\ call.again = call.out
    /\ \A i, j \in 1..Len(call.out) : call.out[i] = call.out[j] => i = j
    /\ \A i \in 1..Len(call.out) : MatchesRelayPattern(call.out[i])

\* two spellings of one relay were given and one well-formed entry came out
C28_TwoSpellingsOneRelay ==
  /\ call.fn = "normalizeRelays" /\ call.done
  /\ Len(call.arg) = 2 /\ call.arg[1] # call.arg[2]
  /\ Len(call.out) = 1 /\ MatchesRelayPattern(call.out[1])
  /\ call.again = call.out

\* C30: auto_sign signs every kind; online_login signs 22242 and rejects the rest;
\* login_and_publish signs 22242 and 1, rejects 0 and refers the rest;
\* login_requires_approval signs 22242 and refers the rest; the same request gets the
\* same decision
C30_PolicyTable ==
  (call.fn = "evaluate" /\ call.done) =>
    /\ call.out =
         (CASE call.policy = "auto_sign" -> "SIGN"
            [] call.policy = "online_login" ->
                 (IF call.kind = 22242 THEN "SIGN" ELSE "REJECT")
            [] call.policy = "login_and_publish" ->
                 (IF call.kind \in {22242, 1} THEN "SIGN"
                  ELSE IF call.kind = 0 THEN "REJECT" ELSE "REFER")
            [] call.policy = "login_requires_approval" ->
                 (IF call.kind = 22242 THEN "SIGN" ELSE "REFER"))
    /\ call.again = call.out

\* a kind that is neither login, note nor profile was referred by login_and_publish
C30_OtherKindReferred ==
  /\ call.fn = "evaluate" /\ call.done
  /\ call.policy = "login_and_publish" /\ call.kind \notin {22242, 1, 0}
  /\ call.out = "REFER"

----------------------------------------------------------------------------
(* the signing key's secret *)

\* C29: whatever requests and provider events came, the secret of the signing key is in no
\* activity entry, in no control-plane response, and in no row of sessions or
\* approval_tasks
C29_KeySecretNowhereWritten ==
  /\ "key.secret" \notin flow.entries
  /\ "key.secret" \notin flow.responses
  /\ "key.secret" \notin flow.tasks
  /\ \A r \in flow.rows : "key.secret" \notin SessionRow(r)

\* a bunker was started with the key: the signer holds the secret, the URI went into the
\* row and the response, entries and an approval row were written and listed
C29_SecretFetchedAndAllWritten ==
  /\ flow.signer = {"key.secret"}
  /\ \E r \in flow.rows : "signer.pubkey" \in r.uri /\ "req.secret" \in r.uri
  /\ {"signer.pubkey", "draft", "approvalId", "active"} \subseteq flow.responses
  /\ "peer" \in flow.entries
  /\ flow.tasks # {}

----------------------------------------------------------------------------
(* the activity log *)

\* at most MAX_LOG_ENTRIES entries, each recorded after, and stamped no earlier than, the
\* entries behind it
C31_BoundedNewestFirst ==
  /\ Len(activityLog) <= MAX_LOG_ENTRIES
  /\ \A i \in 1..(Len(activityLog) - 1) :
       /\ activityLog[i].id > activityLog[i + 1].id
       /\ activityLog[i].timestamp >= activityLog[i + 1].timestamp

\* a record puts the new entry in front of the old ones and drops the last, the oldest,
\* only when the log was full
C31_RecordDropsOldest ==
  [][activityLog' # activityLog =>
       /\ Head(activityLog').id = recorded'
       /\ Tail(activityLog') =
            IF Len(activityLog) < MAX_LOG_ENTRIES
              THEN activityLog
              ELSE SubSeq(activityLog, 1, MAX_LOG_ENTRIES - 1)]_vars

\* C31: after any sequence of recordActivity calls the log holds at most 200 entries, newest
\* first, and a record that would exceed 200 drops the oldest entry
C31_ActivityLogBounded == []C31_BoundedNewestFirst /\ C31_RecordDropsOldest

\* more than 200 records were made: the log is full and the first entries are gone
C31_LogFullOldestDropped ==
  /\ recorded > MAX_LOG_ENTRIES + 1
  /\ Len(activityLog) = MAX_LOG_ENTRIES
  /\ activityLog[MAX_LOG_ENTRIES].id = recorded - MAX_LOG_ENTRIES + 1
  /\ activityLog[1].timestamp > activityLog[MAX_LOG_ENTRIES].timestamp

----------------------------------------------------------------------------
(* the secret store as a map *)

\* the secret of the account is in some store the process reads
HoldsEntry(v, account) == FetchSecret(v, account) # NotFound

\* C32: under every selectable backend the store is a map from account to secret: a get
\* answers the secret last put, or NotFound for an account absent or deleted, a delete
\* succeeds, and after deleteKey no entry is left for the key's account
C32_VaultIsMap ==
  /\ vault.last.op = "get" =>
       vault.last.result =
         (IF vault.ref[vault.last.account] = NoSecret THEN NotFound
          ELSE vault.ref[vault.last.account])
  /\ vault.last.op \in {"delete", "deleteKey"} => vault.last.result = "ok"
  /\ vault.last.op = "deleteKey" => ~HoldsEntry(vault, vault.last.account)

\* the same, where the keychain or the encrypted file is the store
C32_KeychainAndFileAreMaps ==
  (vault.env \in {{"keychain"}, {}}) => C32_VaultIsMap

\* under kwallet a secret was put, overwritten and fetched
C32_GetAfterOverwrite ==
  /\ vault.last.op = "get"
  /\ vault.last.result = "nsec2"
  /\ vault.env = {"kwallet"}

----------------------------------------------------------------------------
(* the notification is best effort *)

NotificationFailed(id) == notified[id] \in PublishFailures

\* C33: a failed notification changes nothing in the approval flow: the task is created
\* pending with its waiter and timer whatever the publish does, the failure itself touches
\* no task, waiter or decision, and the decision of such a task is delivered by the
\* resolution or the expiry
C33_NotificationFailureChangesNothing ==
  [][/\ \A id \in TaskIds :
          (notified[id] = "none" /\ notified'[id] # "none") =>
             /\ id \in DOMAIN approval_tasks' /\ approval_tasks'[id].status = "pending"
             /\ id \in waiters' /\ taskDecision'[id] = "unresolved"
     /\ \A id \in TaskIds :
          (notified[id] = "in-flight" /\ notified'[id] \in PublishFailures) =>
             UNCHANGED amVars
     /\ \A id \in TaskIds :
          (NotificationFailed(id) /\ id \in waiters /\ id \notin waiters') =>
             /\ taskDecision'[id] = Bool(approval_tasks'[id].status = "approved")
             /\ approval_tasks'[id].status # "pending"]_vars

\* a task whose notification failed was approved and got its decision, and another whose
\* notification was skipped expired
C33_FailedYetDecided ==
  \E a, b \in TaskIds :
    /\ notified[a] \in {"network-error", "non-2xx"} /\ taskDecision[a] = Bool(TRUE)
    /\ approval_tasks[a].status = "approved"
    /\ notified[b] = "no-topic" /\ taskDecision[b] = Bool(FALSE)
    /\ approval_tasks[b].status = "expired"

----------------------------------------------------------------------------
(* approval tasks and the runtime map *)

PendingTasks == {id \in DOMAIN approval_tasks : approval_tasks[id].status = "pending"}

\* C34: in every reachable state a pending approval task has a resolver in memory exactly
\* when its session is in the runtime map, also after a restart that restored the session
C34_ResolverIffSessionRunning ==
  \A id \in PendingTasks : (id \in waiters) <=> (approval_tasks[id].sessionId \in runtimes)

\* until the first stop or restart the two go together
C34_HoldsWhileNothingStopped ==
  (boots = 0 /\ \A s \in SessionIds : s \in DOMAIN sessions => sessions[s].active) =>
     C34_ResolverIffSessionRunning

\* after a restart the session is back in the runtime map, its task is still pending and
\* the timers were restored
C34_RestoredWithPendingTask ==
  \E id \in PendingTasks :
    /\ boots > 0 /\ phase = "serving"
    /\ approval_tasks[id].sessionId \in runtimes
    /\ id \in orphanTimers

----------------------------------------------------------------------------
(* timers and resolved tasks *)

\* C35: in every reachable state no timer is armed for a task that is no longer pending,
\* neither the timer of its waiter nor an orphan timer armed on boot
C35_NoTimerForResolvedTask ==
  \A id \in DOMAIN approval_tasks :
    approval_tasks[id].status # "pending" => id \notin waiters /\ id \notin orphanTimers

\* a task restored on boot was approved while its orphan timer was armed
C35_ApprovedWithOrphanTimer ==
  \E id \in DOMAIN approval_tasks :
    /\ boots > 0
    /\ approval_tasks[id].status = "approved"
    /\ id \in orphanTimers

----------------------------------------------------------------------------
(* the relays of a persisted record *)

\* C36: the record persisted by start-bunker or start-nostr-connect holds the normalized
\* form of the request's relays: equal to normalizeRelays of them, no entry twice, no entry
\* ending in a slash, whoever sent the request
C36_StoredRelaysNormalized ==
  (call.fn = "start" /\ call.done) =>
    /\ call.stored = NormalizeRelays(call.request)
    /\ \A i, j \in 1..Len(call.stored) : call.stored[i] = call.stored[j] => i = j
    /\ \A i \in 1..Len(call.stored) :
         call.stored[i] # <<>> /\ call.stored[i][Len(call.stored[i])] # "/"

\* sent by the flows, the stored relays have no entry twice and none ending in a slash
C36_FlowsStoreCleanRelays ==
  (call.fn = "start" /\ call.done /\ call.caller = "flows") =>
    /\ \A i, j \in 1..Len(call.stored) : call.stored[i] = call.stored[j] => i = j
    /\ \A i \in 1..Len(call.stored) :
         call.stored[i] # <<>> /\ call.stored[i][Len(call.stored[i])] # "/"

\* a client of the socket sent a relay with a trailing slash and it was stored
C36_SocketRelayStoredAsSent ==
  /\ call.fn = "start" /\ call.done /\ call.caller = "socket"
  /\ call.arg = << <<"w", "/">> >>
  /\ call.stored = call.arg

----------------------------------------------------------------------------
(* no update of a session's row is lost *)

StoppedDuringStart(s) ==
  /\ Registering(s) /\ stopOp[s] = "none"
  /\ s \in DOMAIN sessions => ~sessions[s].active

\* C38: once a stop or delete of s has answered ok during a start or restore of s that
\* is in progress, s has no runtime, no provider of s accepts requests and the row of s
\* is inactive or absent, now and after every further step
C38_StoppedStaysStopped ==
  [][\A s \in SessionIds :
       StoppedDuringStart(s)
         => /\ s \notin runtimes /\ provider[s] # "running"
            /\ s \notin runtimes' /\ provider'[s] # "running"
            /\ s \in DOMAIN sessions' => ~sessions'[s].active]_vars

\* a stop has answered ok for a session whose provider.start() has not returned yet
C38_StopAnsweredDuringStart ==
  \E s \in SessionIds :
    StoppedDuringStart(s) /\ reg[s] = "awaitStart" /\ lastResponse = "ok"

\* no registerSessionRuntime and no stopSession is suspended
NoOperationInProgress ==
  \A s \in SessionIds : ~Registering(s) /\ stopOp[s] = "none"

\* C39: whenever no start, restore or stop is in progress, every provider that was
\* started and not stopped is the provider of an entry of the runtime map
C39_NoProviderOutsideRuntimes ==
  NoOperationInProgress
    => \A s \in SessionIds : provider[s] = "running" => s \in runtimes

\* a start or restore has failed after its provider had started, and nothing is in progress
C39_FailedAfterProviderStarted ==
  /\ NoOperationInProgress
  /\ \E s \in SessionIds : reg[s] = "failed:store" /\ provider[s] = "running"

\* C40: a connect, nip04 or nip44 request is answered approve exactly when the session's
\* autoApprove flag is true, whatever policy the session has, and creates no approval
C40_PermissionByAutoApproveOnly ==
  [][lastPermission' # lastPermission =>
       LET s == lastPermission'.sessionId IN
         /\ lastPermission'.method \in PermissionMethods
         /\ (lastPermission'.reply = Bool(TRUE)) <=> records[s].autoApprove
         /\ UNCHANGED <<approvals, decisions, approval_tasks, policyRef, lastSign>>]_vars

\* an encryption request was approved on a session whose policy refers events of kind 4
\* and holds a pending approval, and one was not approved on a session without autoApprove
C40_ApprovedUnderReferringPolicy ==
  /\ lastPermission.method = "nip04_encrypt" /\ lastPermission.reply = Bool(TRUE)
  /\ Evaluate(policyRef[lastPermission.sessionId], 4) = "REFER"
  /\ \E id \in DOMAIN approvals : approvals[id].sessionId = lastPermission.sessionId
  /\ \E t \in SessionIds : provider[t] = "running" /\ ~records[t].autoApprove

====
